---- MODULE Spec2Model ----
(***************************************************************************)
(* A model of the arp test runner (github.com/monstercat/arp): the matcher *)
(* evaluator (matcher.go), the per-case validation (JSONParser.Validate),  *)
(* the suite loop (TestSuite.ExecuteTests) and the multi-suite worker pool *)
(* (MultiTestSuite.ExecuteTests).                                          *)
(*                                                                         *)
(* JSON values are records tagged by t: null, int, str, seq, map.  A Go    *)
(* nil interface and a JSON null are both Null.  A path string is kept as  *)
(* the sequence of its segments, <<"fld", name>> for ".name" and           *)
(* <<"idx", name>> for "[name]"; two path strings are equal exactly when   *)
(* their segment sequences are (names hold no '.', '[' or ']').  An error  *)
(* text is kept as the sequence of the format's name and its arguments.    *)
(***************************************************************************)
EXTENDS Integers, Sequences, FiniteSets, TLC

VARIABLES
    case,        \* the test case being validated: matcher lists, node caches
    result,      \* the TestResult handed to Validate: StatusCode, Response, ResponseHeaders
    match,       \* the ResponseMatcher.Match call in progress (MatchBase's locals)
    pc,          \* position inside JSONParser.Validate
    outcome,     \* what Validate has returned so far: per-list statuses, passed, err
    GlobalDataStore, \* the suite store the case points at
    evalLog,     \* history: one entry per MatchConfig call that evaluated a matcher
    suite,       \* the TestSuite: its loaded cases (its store is GlobalDataStore)
    wire,        \* what the transport does with each case's request
    run,         \* TestSuite.ExecuteTests: its locals and what it returned
    execLog,     \* history: one entry per TestCase.Execute call
    Suites,      \* MultiTestSuite.Suites: file -> TestSuite (with ExecuteTests' locals)
    transport,   \* what the transport does with each case of each file
    stores,      \* the data stores the suites' GlobalDataStore pointers point at
    threads,     \* the worker count handed to MultiTestSuite.ExecuteTests
    workerMessages, \* channel of MultiSuiteWorker: its buffer and whether it is closed
    workerResults,  \* channel of MultiSuiteResult: its buffer
    workers,     \* the worker goroutines: position and the message being worked on
    main,        \* MultiTestSuite.ExecuteTests: its position and locals
    wg,          \* the WaitGroup's counter
    received,    \* history: one entry per message a worker received
    accessed,    \* history: the stores the executed cases worked on
    wsTests,     \* a suite with websocket cases, and what the network does with each
    wsRun,       \* its ExecuteTests: position and how it ended
    wsState,     \* the suite store's ws entry, and every connection dialled so far
    wsLog,       \* history: the connection each websocket case worked with
    call,        \* one call of a function of the library: its name and arguments
    ret          \* what the call returned; <<>> until it has

matchVars == <<case, result, match, pc, outcome, evalLog>>
suiteVars == <<suite, wire, run, execLog>>
multiVars == <<Suites, transport, stores, threads, workerMessages, workerResults,
               workers, main, wg, received, accessed>>

wsVars == <<wsTests, wsRun, wsState, wsLog>>
callVars == <<call, ret>>
extVars == <<wsVars, callVars>>

vars == <<matchVars, GlobalDataStore, suiteVars, multiVars, extVars>>

----------------------------------------------------------------------------
(* Values *)

Null == [t |-> "null"]
I(n) == [t |-> "int", i |-> n]
S(str) == [t |-> "str", s |-> str]
A(seq) == [t |-> "seq", e |-> seq]
M(rec) == [t |-> "map", m |-> rec]

IsNil(v) == v.t = "null"

EmptyStore == <<>>

\* DataStore.Put on a plain (dot-free) name: the key is set at the root.
Put(store, k, v) == [x \in (DOMAIN store) \cup {k} |-> IF x = k THEN v ELSE store[x]]

\* DataStore.PutVariable on a plain name, as the matchers call it on their
\* scratch store.
PutVariable(store, variable, value) == Put(store, variable, value)

\* for k := range ds.Store { target.Put(k, ds.Store[k]) }: the keys differ,
\* so the iteration order does not show in the result.
PutAll(target, ds) ==
    [x \in (DOMAIN target) \cup (DOMAIN ds) |-> IF x \in DOMAIN ds THEN ds[x] ELSE target[x]]

ANY_PATTERN == "$any"
NotEmpty == "$notEmpty"
DEFAULT_PRIORITY == 9999

----------------------------------------------------------------------------
(* Path keys and path strings (obj-utils.go) *)

JsonKey(name, isArrayElement, isObject, isLast) ==
    [Name |-> name, IsArray |-> FALSE, IsArrayElement |-> isArrayElement,
     IsLast |-> isLast, IsObject |-> isObject]

RECURSIVE GetJsonPathFrom(_, _, _, _, _)
GetJsonPathFrom(keys, maxDepth, i, nodeCount, pathStr) ==
    IF i > Len(keys)
    THEN [path |-> pathStr,
          remaining |-> IF Len(keys) = 0 THEN <<>> ELSE SubSeq(keys, Len(keys), Len(keys))]
    ELSE IF nodeCount >= maxDepth
    THEN [path |-> pathStr, remaining |-> SubSeq(keys, i, Len(keys))]
    ELSE LET k == keys[i] IN
         IF k.IsArrayElement
         THEN GetJsonPathFrom(keys, maxDepth, i + 1, nodeCount + 1, Append(pathStr, <<"idx", k.Name>>))
         ELSE IF k.IsObject \/ k.IsArray
         THEN GetJsonPathFrom(keys, maxDepth, i + 1, nodeCount, Append(pathStr, <<"fld", k.Name>>))
         ELSE GetJsonPathFrom(keys, maxDepth, i + 1, nodeCount + 1, Append(pathStr, <<"fld", k.Name>>))

GetJsonPath(keys, maxDepth) == GetJsonPathFrom(keys, maxDepth, 1, 0, <<>>)

\* FieldMatcherPath.getObjectPath: the path string of the first `length`
\* nodes and the keys GetJsonPath left unprocessed.
getObjectPath(f, length) == GetJsonPath(f.Keys, length)

GetPath(f) == getObjectPath(f, Len(f.Keys)).path

----------------------------------------------------------------------------
(* Field matchers (matcher.go, matcher-int.go, matcher-array.go,           *)
(* matcher-obj.go, StringMatcher in subcommand.go)                         *)

\* A matcher: Type is the `type` of the definition; Value is the literal
\* (I(n)), the pattern or length expression (S(p)), or Null when unset;
\* Sorted is the array matcher's own `sorted`.
Matcher(type, value, priority, dsName, exists) ==
    [Type |-> type, Value |-> value, Sorted |-> TRUE,
     Exists |-> exists, Nullable |-> (type = "array"),
     DSName |-> dsName, Priority |-> priority, ErrorStr |-> <<>>]

\* regexp.Match(pattern, field) for the patterns of PatternSet: none holds a
\* regular-expression metacharacter and none is a substring of another
\* field value, so the pattern matches exactly the equal text.
matchPattern(pattern, field) == pattern = field

\* A text that is one variable reference, "@{name}", with a plain name.
V(name) == [t |-> "var", n |-> name]

\* DataStore.resolveVariable on a plain name: the value at the root of the
\* store, or an error when the key is missing.
resolveVariable(ds, variable) ==
    IF variable \in DOMAIN ds THEN [value |-> ds[variable], err |-> FALSE]
    ELSE [value |-> S(""), err |-> TRUE]

\* DataStore.ExpandVariable.  On a text without "@{" no frame is found and
\* the input is returned.  On a text that is one whole reference the
\* resolved value is returned as it is; a failed resolution returns nil and
\* the error.
ExpandVariable(ds, input) ==
    IF input.t = "var"
    THEN LET resolvedVar == resolveVariable(ds, input.n) IN
         IF resolvedVar.err THEN [value |-> Null, err |-> TRUE]
         ELSE [value |-> resolvedVar.value, err |-> FALSE]
    ELSE [value |-> input, err |-> FALSE]

\* varToString(variable, def): the "%v" text of a value, def for nil.
varToString(variable, def) ==
    CASE variable.t = "null" -> def
      [] variable.t = "str" -> variable.s
      [] variable.t = "int" -> ToString(variable.i)
      [] OTHER -> "%v"

\* A word of the model (the s of S(word)) holds none of $ < > = and no
\* digit or space: where a function looks at characters it is one symbol.
\* A text spelled out: the sequence of its characters.  X(chars) is a
\* pattern or length expression given that way; it holds no "@{".
X(chars) == [t |-> "txt", c |-> chars]

LT == <<"$", "<">>
LTE == <<"$", "<", "=">>
GT == <<"$", ">">>
GTE == <<"$", ">", "=">>
AnyText == <<"$", "a", "n", "y">>
NotEmptyText == <<"$", "n", "o", "t", "E", "m", "p", "t", "y">>

\* strings.HasPrefix, strings.TrimPrefix.
HasPrefix(str, prefix) ==
    Len(str) >= Len(prefix) /\ SubSeq(str, 1, Len(prefix)) = prefix

TrimPrefix(str, prefix) ==
    IF HasPrefix(str, prefix) THEN SubSeq(str, Len(prefix) + 1, Len(str)) ELSE str

\* strings.ReplaceAll(str, old, ""): every occurrence of old, found from
\* the left without overlap, is removed.
RECURSIVE ReplaceAll(_, _)
ReplaceAll(str, old) ==
    IF str = <<>> THEN <<>>
    ELSE IF HasPrefix(str, old) THEN ReplaceAll(SubSeq(str, Len(old) + 1, Len(str)), old)
    ELSE <<Head(str)>> \o ReplaceAll(Tail(str), old)

\* strings.TrimSpace.
RECURSIVE TrimSpace(_)
TrimSpace(str) ==
    IF str = <<>> THEN <<>>
    ELSE IF Head(str) = " " THEN TrimSpace(Tail(str))
    ELSE IF str[Len(str)] = " " THEN TrimSpace(SubSeq(str, 1, Len(str) - 1))
    ELSE str

Digits == <<"0", "1", "2", "3", "4", "5", "6", "7", "8", "9">>
IsDigit(c) == \E d \in 1..10 : Digits[d] = c
DigitValue(c) == (CHOOSE d \in 1..10 : Digits[d] = c) - 1

RECURSIVE ParseDigits(_, _)
ParseDigits(str, n) ==
    IF str = <<>> THEN n ELSE ParseDigits(Tail(str), 10 * n + DigitValue(Head(str)))

\* strconv.ParseInt(str, 10, 32): an optional sign and at least one decimal
\* digit, nothing else; a value outside 32 bits is an error.
ParseInt32(str) ==
    LET signed == str # <<>> /\ Head(str) \in {"+", "-"}
        digits == IF signed THEN Tail(str) ELSE str
    IN IF digits = <<>> \/ \E i \in 1..Len(digits) : ~IsDigit(digits[i])
       THEN [val |-> 0, err |-> TRUE]
       ELSE LET n == IF signed /\ Head(str) = "-" THEN 0 - ParseDigits(digits, 0)
                     ELSE ParseDigits(digits, 0)
            IN IF n < (0 - 2147483647) - 1 \/ n > 2147483647
               THEN [val |-> 0, err |-> TRUE]
               ELSE [val |-> n, err |-> FALSE]

\* strconv.FormatInt(n, 10).
RECURSIVE FormatNat(_)
FormatNat(n) == IF n < 10 THEN <<Digits[n + 1]>> ELSE Append(FormatNat(n \div 10), Digits[(n % 10) + 1])

FormatInt(n) == IF n < 0 THEN <<"-">> \o FormatNat(0 - n) ELSE FormatNat(n)

\* The loop of evaluateNumExpr: order from longest string to shortest.
NumOps == <<GTE, LTE, GT, LT>>

\* The comparison the switch of evaluateNumExpr makes for op.
NumCompare(op, number, val) ==
    CASE op = LT -> number < val
      [] op = LTE -> number <= val
      [] op = GT -> number > val
      [] op = GTE -> number >= val

\* evaluateNumExpr from the i-th operator of its loop on; acc holds status,
\* evaluated, message and err as the earlier operators left them.  The loop
\* goes on after an operator was found: only a parse error returns.
RECURSIVE evaluateNumExprFrom(_, _, _, _)
evaluateNumExprParsed(exprStr, number, i, acc, parsed) ==
    IF parsed.err
    THEN [status |-> FALSE, evaluated |-> TRUE, message |-> <<>>, err |-> TRUE]
    ELSE evaluateNumExprFrom(exprStr, number, i + 1,
             [status |-> NumCompare(NumOps[i], number, parsed.val),
              evaluated |-> TRUE,
              message |-> IF NumCompare(NumOps[i], number, parsed.val) THEN acc.message
                          ELSE <<"NumExpressionErrFmt", TrimPrefix(NumOps[i], <<"$">>),
                                 parsed.val, number>>,
              err |-> FALSE])

evaluateNumExprFrom(exprStr, number, i, acc) ==
    IF i > Len(NumOps) THEN acc
    ELSE IF ~HasPrefix(exprStr, NumOps[i])
    THEN evaluateNumExprFrom(exprStr, number, i + 1, acc)
    ELSE evaluateNumExprParsed(exprStr, number, i, acc,
             ParseInt32(TrimSpace(ReplaceAll(exprStr, NumOps[i]))))

\* evaluateNumExpr(exprStr, number): status, evaluated, message, err.
evaluateNumExpr(exprStr, number) ==
    evaluateNumExprFrom(exprStr, number, 1,
        [status |-> FALSE, evaluated |-> FALSE, message |-> <<>>, err |-> FALSE])

\* FieldMatcherProps.ValidateExistance: (status, passthrough) and the error text.
ValidateExistance(m, node) ==
    IF IsNil(node) /\ m.Exists /\ ~m.Nullable
    THEN [status |-> FALSE, passthrough |-> FALSE, ErrorStr |-> <<"ReceivedNullErrFmt">>]
    ELSE IF IsNil(node) /\ ~m.Exists
    THEN [status |-> TRUE, passthrough |-> FALSE, ErrorStr |-> <<"ExpectedNullSuccessFmt">>]
    ELSE IF ~IsNil(node) /\ ~m.Exists
    THEN [status |-> FALSE, passthrough |-> FALSE, ErrorStr |-> <<"ExpectedNullErrFmt">>]
    ELSE [status |-> FALSE, passthrough |-> TRUE, ErrorStr |-> m.ErrorStr]

\* What Match returns: status, the scratch store with the capture, whether
\* an error was returned, and the matcher's ErrorStr afterwards.
MatchReturn(status, store, err, errorStr) ==
    [status |-> status, store |-> store, err |-> err, ErrorStr |-> errorStr]

Capture(m, status, responseValue) ==
    IF status /\ m.DSName # "" THEN PutVariable(EmptyStore, m.DSName, responseValue)
    ELSE EmptyStore

\* regexp.Match(pattern, field) for a spelled pattern of decimal digits:
\* the digits occur in the field.
matchPatternText(pattern, field) ==
    \E i \in 0..(Len(field) - Len(pattern)) : SubSeq(field, i + 1, i + Len(pattern)) = pattern

\* IntegerMatcher.Match on a spelled pattern, from `if resolvedStr == Any`
\* on; ev is what evaluateNumExpr returned.  Its error is assigned to the
\* err of the pattern branch, not to the one Match returns.
IntegerMatchText(m, responseValue, v, ev) ==
    LET status == IF m.Value.c = AnyText THEN TRUE
                  ELSE IF ev.evaluated THEN ev.status
                  ELSE matchPatternText(m.Value.c, FormatInt(v))
    IN MatchReturn(status, Capture(m, status, responseValue), FALSE,
           IF status THEN <<ToString(v)>>
           ELSE IF ev.evaluated THEN ev.message
           ELSE <<"PatternErrFmt", ToString(v), m.Value.c>>)

IntegerMatch(m, responseValue, datastore) ==
    IF responseValue.t # "int"
    THEN MatchReturn(FALSE, EmptyStore, FALSE, <<"MismatchedMatcher", "integer">>)
    ELSE LET v == responseValue.i IN
         IF m.Value.t = "int"
         THEN LET status == (m.Value.i = v) IN
              MatchReturn(status, Capture(m, status, responseValue), FALSE,
                  IF status THEN <<ToString(v)>>
                  ELSE <<"ValueErrFmt", ToString(m.Value.i), ToString(v)>>)
         ELSE IF m.Value.t = "str"
         THEN LET expanded == ExpandVariable(datastore, m.Value)
                  resolved == [value |-> varToString(expanded.value, m.Value.s), err |-> expanded.err]
              IN
              IF resolved.err
              THEN MatchReturn(FALSE, EmptyStore, TRUE, <<>>)
              ELSE IF resolved.value = ANY_PATTERN
              THEN MatchReturn(TRUE, Capture(m, TRUE, responseValue), FALSE, <<ToString(v)>>)
              ELSE LET ev == evaluateNumExpr(<<resolved.value>>, v)
                       status == IF ev.evaluated THEN ev.status
                                 ELSE matchPattern(resolved.value, ToString(v))
                   IN MatchReturn(status, Capture(m, status, responseValue), FALSE,
                          IF status THEN <<ToString(v)>>
                          ELSE IF ev.evaluated THEN ev.message
                          ELSE <<"PatternErrFmt", ToString(v), resolved.value>>)
         ELSE IF m.Value.t = "txt"
         THEN IntegerMatchText(m, responseValue, v, evaluateNumExpr(m.Value.c, v))
         ELSE MatchReturn(FALSE, EmptyStore, FALSE, <<>>)

\* A string matcher that records an unresolved variable as a failure.
StringMatchRecorded(m, responseValue, datastore) ==
    MatchReturn(FALSE, EmptyStore, FALSE, <<"BadVarMatcherFmt">>)

\* StringMatcher.Match does not clear ErrorStr on entry: with no `matches`
\* the status is false and the text is the one left by the last evaluation.
StringMatch(m, responseValue, datastore) ==
    IF responseValue.t # "str"
    THEN MatchReturn(FALSE, EmptyStore, FALSE, <<"MismatchedMatcher", "string">>)
    ELSE LET v == responseValue.s IN
         IF m.Value.t \in {"str", "var"}
         THEN LET expanded == ExpandVariable(datastore, m.Value)
                  resolved == [value |-> varToString(expanded.value,
                                                     IF m.Value.t = "str" THEN m.Value.s ELSE m.Value.n),
                               err |-> expanded.err]
              IN
              IF resolved.err
              THEN MatchReturn(FALSE, EmptyStore, TRUE, m.ErrorStr)
              ELSE LET status ==
                           IF resolved.value = ANY_PATTERN THEN TRUE
                           ELSE IF resolved.value = NotEmpty THEN v # ""
                           ELSE matchPattern(resolved.value, v)
                   IN MatchReturn(status, Capture(m, status, responseValue), FALSE,
                          IF status THEN <<v>>
                          ELSE IF resolved.value = NotEmpty THEN <<"NotEmptyErrFmt", v>>
                          ELSE <<"PatternErrFmt", v, resolved.value>>)
         ELSE MatchReturn(FALSE, EmptyStore, FALSE, m.ErrorStr)

\* ArrayMatcher.Match on a spelled length expression, from `switch s` on;
\* ev is what evaluateNumExpr returned.  Its error is assigned to the err of
\* the LengthStr branch, not to the one Match returns.
ArrayMatchText(m, responseValue, responseLength, ev) ==
    LET status == IF m.Value.c = NotEmptyText THEN responseLength > 0
                  ELSE IF m.Value.c = AnyText THEN TRUE
                  ELSE ev.status
    IN MatchReturn(status, Capture(m, status, responseValue), FALSE,
           IF status THEN <<"length", ToString(responseLength)>>
           ELSE IF m.Value.c \in {NotEmptyText, AnyText} THEN m.ErrorStr
           ELSE IF ev.evaluated THEN <<"length">> \o ev.message
           ELSE ev.message)

\* ArrayMatcher.Match: a nil response counts as an empty array.
ArrayMatch(m, responseValue, datastore) ==
    IF ~IsNil(responseValue) /\ responseValue.t # "seq"
    THEN MatchReturn(FALSE, EmptyStore, FALSE, <<"MismatchedMatcher", "array">>)
    ELSE LET responseLength == IF IsNil(responseValue) THEN 0 ELSE Len(responseValue.e) IN
         IF m.Value.t = "int"
         THEN LET status == (responseLength = m.Value.i) IN
              MatchReturn(status, Capture(m, status, responseValue), FALSE,
                  IF status THEN <<"length", ToString(responseLength)>>
                  ELSE <<"ArrayLengthErrFmt", ToString(m.Value.i), ToString(responseLength)>>)
         ELSE IF m.Value.t = "str"
         THEN LET expanded == ExpandVariable(datastore, m.Value)
                  resolved == [value |-> varToString(expanded.value, m.Value.s), err |-> expanded.err]
              IN
              IF resolved.err
              THEN MatchReturn(FALSE, EmptyStore, TRUE, m.ErrorStr)
              ELSE LET ev == evaluateNumExpr(<<resolved.value>>, responseLength)
                       status == IF resolved.value = NotEmpty THEN responseLength > 0
                                 ELSE IF resolved.value = ANY_PATTERN THEN TRUE
                                 ELSE ev.status
                   IN MatchReturn(status, Capture(m, status, responseValue), FALSE,
                          IF status THEN <<"length", ToString(responseLength)>>
                          ELSE IF resolved.value \in {NotEmpty, ANY_PATTERN} THEN m.ErrorStr
                          ELSE IF ev.evaluated THEN <<"length">> \o ev.message
                          ELSE ev.message)
         ELSE IF m.Value.t = "txt"
         THEN ArrayMatchText(m, responseValue, responseLength,
                  evaluateNumExpr(m.Value.c, responseLength))
         ELSE MatchReturn(FALSE, EmptyStore, FALSE, m.ErrorStr)

\* ObjectMatcher.Match: the capture is stored whenever the value is a map.
ObjectMatch(m, responseValue, datastore) ==
    IF IsNil(responseValue) /\ m.Exists
    THEN MatchReturn(FALSE, EmptyStore, FALSE, <<"ReceivedNullErrFmt">>)
    ELSE IF IsNil(responseValue) /\ ~m.Exists
    THEN MatchReturn(TRUE, EmptyStore, FALSE, <<"ExpectedNullSuccessFmt">>)
    ELSE IF ~m.Exists
    THEN MatchReturn(FALSE, EmptyStore, FALSE, <<"ExpectedNullErrFmt">>)
    ELSE IF responseValue.t # "map"
    THEN MatchReturn(FALSE, EmptyStore, FALSE, <<"MismatchedMatcher", "object">>)
    ELSE MatchReturn(TRUE, Capture(m, TRUE, responseValue), FALSE, <<"{}">>)

\* FieldMatcher.Match, by the variant of the matcher.
Match(m, responseValue, datastore) ==
    CASE m.Type = "integer" -> IntegerMatch(m, responseValue, datastore)
      [] m.Type = "string" -> StringMatch(m, responseValue, datastore)
      [] m.Type = "array" -> ArrayMatch(m, responseValue, datastore)
      [] OTHER -> ObjectMatch(m, responseValue, datastore)

----------------------------------------------------------------------------
(* Loading a response definition into the matcher list (matcher.go)        *)

\* An exploded field definition (a yaml map with `type`).  Properties is the
\* sequence of <<name, definition>> in the order loadObjectFields' range
\* over the map happens to visit them.  A simplified definition is a plain
\* value, I(n) or S(s).
FieldDef(type, value, priority, dsName, sorted, items, properties) ==
    [t |-> "def", Type |-> type, Value |-> value, Priority |-> priority,
     DSName |-> dsName, Exists |-> TRUE, Sorted |-> sorted,
     Items |-> items, Properties |-> properties]

FieldMatcherPath(keys, sorted) == [Keys |-> keys, Sorted |-> sorted, IsExecutable |-> FALSE]

FieldMatcherConfig(matcher, paths) == [Matcher |-> matcher, ObjectKeyPath |-> paths]

\* ResponseMatcher.AddMatcherConfig: a definition whose path string is
\* already in the list is dropped.
AddMatcherConfig(Config, config) ==
    IF \E i \in 1..Len(Config) : GetPath(Config[i].ObjectKeyPath) = GetPath(config.ObjectKeyPath)
    THEN Config
    ELSE Append(Config, config)

\* last := &paths.Keys[len(paths.Keys)-1] with one field of it set.
SetLastKey(paths, field, value) ==
    [paths EXCEPT !.Keys[Len(paths.Keys)] = [@ EXCEPT ![field] = value]]

RECURSIVE loadField(_, _, _)
RECURSIVE loadSimplifiedField(_, _, _)
RECURSIVE loadArrayFields(_, _, _, _, _)
RECURSIVE loadObjectFields(_, _, _, _)

\* loadField: the matcher is added under `paths`; for an object the last key
\* is then marked IsObject in the key array the added entry shares.
loadField(Config, fieldNode, paths) ==
    LET foundMatcher == [Matcher(fieldNode.Type, fieldNode.Value, fieldNode.Priority,
                                 fieldNode.DSName, fieldNode.Exists)
                         EXCEPT !.Sorted = fieldNode.Sorted]
    IN CASE fieldNode.Type = "array" ->
                loadArrayFields(AddMatcherConfig(Config, FieldMatcherConfig(foundMatcher, paths)),
                                foundMatcher, fieldNode.Items, paths, 1)
         [] fieldNode.Type = "object" ->
                LET marked == SetLastKey(paths, "IsObject", TRUE)
                    exists == \E i \in 1..Len(Config) :
                                  GetPath(Config[i].ObjectKeyPath) = GetPath(paths)
                    added == IF exists THEN Config
                             ELSE Append(Config, FieldMatcherConfig(foundMatcher, marked))
                IN loadObjectFields(added, fieldNode.Properties, marked, 1)
         [] OTHER -> AddMatcherConfig(Config, FieldMatcherConfig(foundMatcher, paths))

\* loadSimplifiedField for a string or an integer: an exact matcher with the
\* default properties; the last key is marked IsLast.
loadSimplifiedField(Config, fieldNode, paths) ==
    LET foundMatcher == Matcher(IF fieldNode.t = "int" THEN "integer" ELSE "string",
                                fieldNode, DEFAULT_PRIORITY, "", TRUE)
    IN AddMatcherConfig(Config, FieldMatcherConfig(foundMatcher, SetLastKey(paths, "IsLast", TRUE)))

\* loadArrayFields from the i-th item on: the item's key is its index, the
\* new path is sorted as the array matcher is.
loadArrayFields(Config, m, fields, paths, i) ==
    IF i > Len(fields) THEN Config
    ELSE LET k == ToString(i - 1)
             newPaths == FieldMatcherPath(Append(paths.Keys, JsonKey(k, TRUE, FALSE, FALSE)), m.Sorted)
             arrayNode == fields[i]
             loaded == IF arrayNode.t = "def" THEN loadField(Config, arrayNode, newPaths)
                       ELSE loadSimplifiedField(Config, arrayNode, newPaths)
         IN loadArrayFields(loaded, m, fields, paths, i + 1)

\* loadObjectFields from the i-th visited property on; the new path is
\* sorted as the parent path is.
loadObjectFields(Config, fields, paths, i) ==
    IF i > Len(fields) THEN Config
    ELSE LET newPaths == FieldMatcherPath(Append(paths.Keys, JsonKey(fields[i][1], FALSE, FALSE, FALSE)),
                                          paths.Sorted)
             target == fields[i][2]
             loaded == IF target.t = "def" THEN loadField(Config, target, newPaths)
                       ELSE loadSimplifiedField(Config, target, newPaths)
         IN loadObjectFields(loaded, fields, paths, i + 1)

----------------------------------------------------------------------------
(* Locating a node and evaluating one matcher (matcher.go)                 *)

\* SetError: the string matcher wraps the text with its pattern.
SetError(m, error) ==
    IF m.Type = "string" THEN <<error, "matching", m.Value.s>> ELSE <<error>>

\* ValidateExistance and, on passthrough, Match, as depthMatch and
\* MatchConfig call them on a node.
EvalNode(m, node, ds) ==
    LET ve == ValidateExistance(m, node) IN
    IF ve.passthrough THEN Match([m EXCEPT !.ErrorStr = ve.ErrorStr], node, ds)
    ELSE MatchReturn(ve.status, EmptyStore, FALSE, ve.ErrorStr)

\* A DepthMatchResponse, with the ErrorStr the search left on the matcher.
DepthMatchResponse(status, node, chain, errorStr) ==
    [Status |-> status, Node |-> node, MatchedNodeKey |-> FALSE,
     NodeChain |-> chain, ErrorStr |-> errorStr]

RECURSIVE depthMatch(_, _, _, _, _)
RECURSIVE depthMatchMap(_, _, _, _, _, _)
RECURSIVE depthMatchArray(_, _, _, _, _, _)

\* A map case that accepts a found node under whatever key it visits.
depthMatchMapKeyAny(n, m, ds, key, ord, i, res) ==
    IF res.Status /\ ~res.MatchedNodeKey
    THEN [res EXCEPT !.MatchedNodeKey = TRUE, !.NodeChain = Append(@, n)]
    ELSE depthMatchMap(n, [m EXCEPT !.ErrorStr = res.ErrorStr], ds, key, ord, i + 1)

\* The map case after the search below the i-th visited key has returned
\* res: a found node is accepted only under the key searched for and only if
\* no deeper map has claimed it; otherwise the next key is visited.
depthMatchMapKey(n, m, ds, key, ord, i, res) ==
    IF res.Status /\ ~res.MatchedNodeKey /\ ord[n][i] = key
    THEN [res EXCEPT !.MatchedNodeKey = TRUE, !.NodeChain = Append(@, n)]
    ELSE depthMatchMap(n, [m EXCEPT !.ErrorStr = res.ErrorStr], ds, key, ord, i + 1)

\* The map case from the i-th visited key on.  ord gives, for each map, the
\* order in which this range over it visits the keys.
depthMatchMap(n, m, ds, key, ord, i) ==
    IF i > Len(ord[n]) THEN DepthMatchResponse(FALSE, Null, <<>>, m.ErrorStr)
    ELSE depthMatchMapKey(n, m, ds, key, ord, i, depthMatch(n.m[ord[n][i]], m, ds, key, ord))

\* The array case after the search below the i-th element has returned res:
\* the first found node is accepted.
depthMatchArrayElement(n, m, ds, key, ord, i, res) ==
    IF res.Status THEN [res EXCEPT !.NodeChain = Append(@, n)]
    ELSE depthMatchArray(n, [m EXCEPT !.ErrorStr = res.ErrorStr], ds, key, ord, i + 1)

\* The array case from the i-th element on.
depthMatchArray(n, m, ds, key, ord, i) ==
    IF i > Len(n.e) THEN DepthMatchResponse(FALSE, Null, <<>>, m.ErrorStr)
    ELSE depthMatchArrayElement(n, m, ds, key, ord, i, depthMatch(n.e[i], m, ds, key, ord))

\* depthMatch after the matcher has been evaluated on the node itself (ev):
\* the node is found, or its children are searched depth first.
depthMatchNode(node, m, ds, key, ord, ev) ==
    IF ev.status THEN DepthMatchResponse(TRUE, node, <<node>>, ev.ErrorStr)
    ELSE IF node.t = "map"
    THEN depthMatchMap(node, [m EXCEPT !.ErrorStr = ev.ErrorStr], ds, key, ord, 1)
    ELSE IF node.t = "seq"
    THEN depthMatchArray(node, [m EXCEPT !.ErrorStr = ev.ErrorStr], ds, key, ord, 1)
    ELSE DepthMatchResponse(FALSE, Null, <<>>, ev.ErrorStr)

\* ResponseMatcher.depthMatch.
depthMatch(node, m, ds, key, ord) == depthMatchNode(node, m, ds, key, ord, EvalNode(m, node, ds))

\* A lookup that never finds a cached node: every key is still to be walked.
LookUpNothing(Cache, f, distance) == [node |-> Null, keys |-> f.Keys]

RECURSIVE LookUpFrom(_, _, _)
\* NodeCache.LookUp from `distance` on: the cached node of the longest path
\* prefix and the keys still to walk.
LookUpFrom(Cache, f, distance) ==
    LET op == getObjectPath(f, Len(f.Keys) - distance) IN
    IF op.path # <<>> /\ Len(f.Keys) - 1 - distance >= 0
    THEN IF op.path \in DOMAIN Cache
         THEN [node |-> Cache[op.path], keys |-> IF distance = 0 THEN <<>> ELSE op.remaining]
         ELSE LookUpFrom(Cache, f, distance + 1)
    ELSE [node |-> Null, keys |-> op.remaining]

LookUp(Cache, matcher) == LookUpFrom(Cache, matcher.ObjectKeyPath, 0)

RECURSIVE CacheChain(_, _, _, _)
\* for i, chainNode := range result.NodeChain: the node is cached under the
\* path of the first len(NodeChain)-i nodes of the matcher's path.
CacheChain(Cache, f, chain, i) ==
    IF i >= Len(chain) THEN Cache
    ELSE CacheChain((getObjectPath(f, Len(chain) - i).path :> chain[i + 1]) @@ Cache,
                    f, chain, i + 1)

MaxIndex == 2

\* strconv.ParseInt(name, 10, 32) on a key name: the index, or -1 for an error.
ParseInt(name) ==
    IF \E n \in 0..MaxIndex : ToString(n) = name
    THEN CHOOSE n \in 0..MaxIndex : ToString(n) = name
    ELSE -1

\* The element a search selected: the keys of the matcher up to the array
\* element's key, and the child of the searched array on the found chain.
Selected(f, keys, i, chain) ==
    LET abs == Len(f.Keys) - Len(keys) + i
        upto == IF keys[i].IsArrayElement THEN abs ELSE abs - 1
    IN IF Len(chain) < 2 THEN <<>>
       ELSE <<[prefix |-> SubSeq(f.Keys, 1, upto), elem |-> chain[Len(chain) - 1]]>>

RECURSIVE WalkKeys(_, _, _, _, _, _, _, _, _)

\* The unsorted-array case of the loop once the search has returned res: the
\* found node is taken and its chain cached, or the node is nil and the
\* matcher's error says so.
WalkSearched(m, f, keys, i, Cache, ds, ord, sel, res) ==
    IF res.Status /\ (res.MatchedNodeKey \/ (keys[i].IsArrayElement /\ keys[i].IsLast))
    THEN WalkKeys([m EXCEPT !.ErrorStr = res.ErrorStr], f, keys, i + 1,
                  res.Node, CacheChain(Cache, f, res.NodeChain, 0), ds, ord,
                  Selected(f, keys, i, res.NodeChain))
    ELSE WalkKeys([m EXCEPT !.ErrorStr = SetError(m, "Failed locate node")],
                  f, keys, i + 1, Null, Cache, ds, ord, sel)

\* The loop of MatchConfig over the keys left after the cache lookup, from
\* the i-th on.  Yields the node reached, the cache, the matcher's ErrorStr,
\* whether ParseInt failed, and (sel) the element the last search selected.
WalkKeys(m, f, keys, i, node, Cache, ds, ord, sel) ==
    IF i > Len(keys)
    THEN [node |-> node, Cache |-> Cache, ErrorStr |-> m.ErrorStr, err |-> FALSE, sel |-> sel]
    ELSE IF node.t = "map"
    THEN WalkKeys(m, f, keys, i + 1,
                  IF keys[i].Name \in DOMAIN node.m THEN node.m[keys[i].Name] ELSE Null,
                  Cache, ds, ord, sel)
    ELSE IF node.t = "seq" /\ f.Sorted
    THEN IF ParseInt(keys[i].Name) < 0
         THEN [node |-> node, Cache |-> Cache, ErrorStr |-> m.ErrorStr, err |-> TRUE, sel |-> sel]
         ELSE WalkKeys(m, f, keys, i + 1,
                       IF ParseInt(keys[i].Name) < Len(node.e)
                       THEN node.e[ParseInt(keys[i].Name) + 1] ELSE Null,
                       Cache, ds, ord, sel)
    ELSE IF node.t = "seq"
    THEN IF keys[i].IsArrayElement /\ ~keys[i].IsLast
         THEN WalkKeys(m, f, keys, i + 1, node, Cache, ds, ord, sel)
         ELSE WalkSearched(m, f, keys, i, Cache, ds, ord, sel,
                           depthMatch(node, m, ds, keys[i].Name, ord))
    ELSE WalkKeys(m, f, keys, i + 1, node, Cache, ds, ord, sel)

\* What MatchConfig returns (Status, Results, DeferCheck, Err) and what it
\* leaves behind: the node cache, the store behind r.DS, the matcher's
\* ErrorStr, the node the matcher was finally evaluated on, and sel.
ResponseMatcherResults(status, results, deferCheck, err, Cache, ds, errorStr, node, sel) ==
    [Status |-> status, Results |-> results, DeferCheck |-> deferCheck, Err |-> err,
     Cache |-> Cache, DS |-> ds, ErrorStr |-> errorStr, Node |-> node, sel |-> sel]

\* The end of MatchConfig: the matcher has been evaluated (ev) on the node
\* the walk (w) reached; its capture is put into the store behind r.DS and
\* one field result is appended.
MatchConfigEvaluated(matcher, ds, w, ev) ==
    IF ev.err
    THEN ResponseMatcherResults(FALSE, <<>>, FALSE, TRUE, w.Cache, ds, ev.ErrorStr, w.node, w.sel)
    ELSE ResponseMatcherResults(ev.status,
             <<[ObjectKeyPath |-> GetPath(matcher.ObjectKeyPath), Status |-> ev.status,
                Error |-> ev.ErrorStr,
                IgnoreResult |-> matcher.Matcher.Type = "object" /\ ev.status]>>,
             FALSE, FALSE, w.Cache, PutAll(ds, ev.store), ev.ErrorStr, w.node, w.sel)

\* MatchConfig once the keys have been walked (w): an index that does not
\* parse is returned as an error, otherwise the matcher is evaluated.
MatchConfigWalked(matcher, ds, w) ==
    IF w.err
    THEN ResponseMatcherResults(FALSE, <<>>, FALSE, TRUE, w.Cache, ds, w.ErrorStr, w.node, w.sel)
    ELSE MatchConfigEvaluated(matcher, ds, w,
             EvalNode([matcher.Matcher EXCEPT !.ErrorStr = w.ErrorStr], w.node, ds))

\* MatchConfig once the cache has been looked up (lk): the walk starts at
\* the cached node if there is one, else at the response.
MatchConfigFrom(matcher, response, Cache, ds, ord, lk) ==
    MatchConfigWalked(matcher, ds,
        WalkKeys(matcher.Matcher, matcher.ObjectKeyPath, lk.keys, 1,
                 IF ~IsNil(lk.node) THEN lk.node ELSE response, Cache, ds, ord, <<>>))

\* ResponseMatcher.MatchConfig with no key processor: an object matcher on
\* an unsorted path is deferred.
MatchConfig(matcher, response, Cache, ds, ord) ==
    IF matcher.Matcher.Type = "object" /\ ~matcher.ObjectKeyPath.Sorted
    THEN ResponseMatcherResults(FALSE, <<>>, TRUE, FALSE, Cache, ds, matcher.Matcher.ErrorStr,
                                Null, <<>>)
    ELSE MatchConfigFrom(matcher, response, Cache, ds, ord, LookUp(Cache, matcher))

----------------------------------------------------------------------------
(* Ordering and running a matcher list (matcher.go)                        *)

\* The comparison SortConfigs hands to sort.Slice.
less(a, b) ==
    a.Matcher.Priority <= b.Matcher.Priority
        /\ Len(a.ObjectKeyPath.Keys) <= Len(b.ObjectKeyPath.Keys)

RECURSIVE insertDown(_, _)
\* for j := i; j > a && less(j, j-1); j-- { swap(j, j-1) }
insertDown(data, j) ==
    IF j > 1 /\ less(data[j], data[j - 1])
    THEN insertDown([data EXCEPT ![j] = data[j - 1], ![j - 1] = data[j]], j - 1)
    ELSE data

RECURSIVE insertionSort(_, _)
insertionSort(data, i) ==
    IF i > Len(data) THEN data ELSE insertionSort(insertDown(data, i), i + 1)

\* ResponseMatcher.SortConfigs: sort.Slice sorts a slice of at most
\* MaxConfigs elements by insertion, with whatever comparison it is given.
SortConfigs(Config) == insertionSort(Config, 2)

\* A check that lets every response through.
validateEmptyNot(Config, response) == TRUE

\* ResponseMatcher.validateEmpty.
validateEmpty(Config, response) ==
    IF Len(Config) = 0 THEN TRUE
    ELSE IF IsNil(response) THEN FALSE
    ELSE IF response.t = "map" THEN DOMAIN response.m # {}
    ELSE IF response.t = "seq" THEN Len(response.e) > 0
    ELSE FALSE

\* The locals of one ResponseMatcher.Match call together with the list and
\* the node cache of the ResponseMatcher it runs on.  phase is "loop" while
\* MatchBase's loop runs and "returned" once Match has returned.
MatchState(Config, NodeCache, phase, status, results, err) ==
    [Config |-> Config, NodeCache |-> NodeCache, phase |-> phase, mIndex |-> 1,
     aggregatedStatus |-> status, results |-> results, err |-> err]

\* ResponseMatcher.Match up to the first loop test of MatchBase.
MatchBegin(r, response) ==
    IF ~validateEmpty(r.Config, response)
    THEN MatchState(r.Config, r.NodeCache, "returned", FALSE,
             <<[ObjectKeyPath |-> <<<<"fld", "response">>>>, Status |-> FALSE,
                Error |-> <<"Expected a non-null response payload.">>, IgnoreResult |-> FALSE]>>,
             FALSE)
    ELSE MatchState(SortConfigs(r.Config), r.NodeCache, "loop", TRUE, <<>>, FALSE)

RemoveAt(seq, i) == SubSeq(seq, 1, i - 1) \o SubSeq(seq, i + 1, Len(seq))

\* A loop body that returns at the first matcher whose status is false.
MatchBaseResultStop(ms, mR) ==
    LET matcher == ms.Config[ms.mIndex]
        evaluated == [ms.Config EXCEPT ![ms.mIndex].Matcher.ErrorStr = mR.ErrorStr]
        after == [ms EXCEPT !.NodeCache = mR.Cache, !.results = @ \o mR.Results]
        eval == [Keys |-> matcher.ObjectKeyPath.Keys, Priority |-> matcher.Matcher.Priority,
                 Node |-> mR.Node, sel |-> mR.sel]
    IN IF mR.Err \/ (~mR.DeferCheck /\ ~mR.Status)
       THEN [ms |-> [after EXCEPT !.Config = evaluated, !.phase = "returned",
                                  !.aggregatedStatus = FALSE, !.err = mR.Err],
             DS |-> mR.DS, eval |-> <<eval>>]
       ELSE IF mR.DeferCheck
       THEN [ms |-> [after EXCEPT !.Config =
                        RemoveAt(Append(evaluated, [matcher EXCEPT !.ObjectKeyPath.Sorted = TRUE]),
                                 ms.mIndex)],
             DS |-> mR.DS, eval |-> <<>>]
       ELSE [ms |-> [after EXCEPT !.Config = evaluated, !.mIndex = @ + 1],
             DS |-> mR.DS, eval |-> <<eval>>]

\* A loop body that leaves a deferred matcher where it is.
MatchBaseResultInPlace(ms, mR) ==
    LET evaluated == [ms.Config EXCEPT ![ms.mIndex].Matcher.ErrorStr = mR.ErrorStr]
        after == [ms EXCEPT !.NodeCache = mR.Cache, !.results = @ \o mR.Results]
        eval == [Keys |-> ms.Config[ms.mIndex].ObjectKeyPath.Keys,
                 Priority |-> ms.Config[ms.mIndex].Matcher.Priority,
                 Node |-> mR.Node, sel |-> mR.sel]
    IN IF mR.Err
       THEN [ms |-> [after EXCEPT !.Config = evaluated, !.phase = "returned",
                                  !.aggregatedStatus = FALSE, !.err = TRUE],
             DS |-> mR.DS, eval |-> <<eval>>]
       ELSE IF mR.DeferCheck
       THEN [ms |-> [after EXCEPT !.Config = [evaluated EXCEPT ![ms.mIndex].ObjectKeyPath.Sorted = TRUE]],
             DS |-> mR.DS, eval |-> <<>>]
       ELSE [ms |-> [after EXCEPT !.Config = evaluated, !.mIndex = @ + 1,
                                  !.aggregatedStatus = @ /\ mR.Status],
             DS |-> mR.DS, eval |-> <<eval>>]

\* A loop body that moves a deferred matcher to the tail without marking
\* its path sorted.
MatchBaseResultUnmarked(ms, mR) ==
    LET matcher == ms.Config[ms.mIndex]
        evaluated == [ms.Config EXCEPT ![ms.mIndex].Matcher.ErrorStr = mR.ErrorStr]
        after == [ms EXCEPT !.NodeCache = mR.Cache, !.results = @ \o mR.Results]
        eval == [Keys |-> matcher.ObjectKeyPath.Keys, Priority |-> matcher.Matcher.Priority,
                 Node |-> mR.Node, sel |-> mR.sel]
    IN IF mR.Err
       THEN [ms |-> [after EXCEPT !.Config = evaluated, !.phase = "returned",
                                  !.aggregatedStatus = FALSE, !.err = TRUE],
             DS |-> mR.DS, eval |-> <<eval>>]
       ELSE IF mR.DeferCheck
       THEN [ms |-> [after EXCEPT !.Config = RemoveAt(Append(evaluated, matcher), ms.mIndex)],
             DS |-> mR.DS, eval |-> <<>>]
       ELSE [ms |-> [after EXCEPT !.Config = evaluated, !.mIndex = @ + 1,
                                  !.aggregatedStatus = @ /\ mR.Status],
             DS |-> mR.DS, eval |-> <<eval>>]

\* The rest of the loop body once MatchConfig has returned mR: an error
\* returns, a deferred matcher moves to the tail with its path marked
\* sorted, anything else is folded into the aggregated status.
MatchBaseResult(ms, mR) ==
    LET matcher == ms.Config[ms.mIndex]
        evaluated == [ms.Config EXCEPT ![ms.mIndex].Matcher.ErrorStr = mR.ErrorStr]
        after == [ms EXCEPT !.NodeCache = mR.Cache, !.results = @ \o mR.Results]
        eval == [Keys |-> matcher.ObjectKeyPath.Keys, Priority |-> matcher.Matcher.Priority,
                 Node |-> mR.Node, sel |-> mR.sel]
    IN IF mR.Err
       THEN [ms |-> [after EXCEPT !.Config = evaluated, !.phase = "returned",
                                  !.aggregatedStatus = FALSE, !.err = TRUE],
             DS |-> mR.DS, eval |-> <<eval>>]
       ELSE IF mR.DeferCheck
       THEN [ms |-> [after EXCEPT !.Config =
                        RemoveAt(Append(evaluated, [matcher EXCEPT !.ObjectKeyPath.Sorted = TRUE]),
                                 ms.mIndex)],
             DS |-> mR.DS, eval |-> <<>>]
       ELSE [ms |-> [after EXCEPT !.Config = evaluated, !.mIndex = @ + 1,
                                  !.aggregatedStatus = @ /\ mR.Status],
             DS |-> mR.DS, eval |-> <<eval>>]

\* One pass through the body of MatchBase's loop (or its exit), with the
\* store behind r.DS: yields the new locals, the new store, and (eval) a
\* record of the matcher this pass evaluated, if it evaluated one.
MatchBaseStep(ms, response, ds, ord) ==
    IF ms.mIndex > Len(ms.Config)
    THEN [ms |-> [ms EXCEPT !.phase = "returned"], DS |-> ds, eval |-> <<>>]
    ELSE MatchBaseResult(ms, MatchConfig(ms.Config[ms.mIndex], response, ms.NodeCache, ds, ord))

----------------------------------------------------------------------------
(* A test case and its validation (testcase.go, JSONParser.Validate)       *)

NewResponseMatcher == [Config |-> <<>>, NodeCache |-> <<>>]

\* TestCase.LoadConfig: the three matcher lists of a case.  All three are
\* given the case's GlobalDataStore pointer as their DS.
LoadConfig(test) ==
    LET keyPath == FieldMatcherPath(<<JsonKey("code", FALSE, FALSE, FALSE)>>, FALSE)
        sc == test.Response.StatusCode
    IN [Config |-> test,
        StatusCodeMatcher |->
            [NewResponseMatcher EXCEPT !.Config =
                IF IsNil(sc) THEN <<>>
                ELSE IF sc.t = "def" THEN loadField(<<>>, sc, keyPath)
                ELSE loadSimplifiedField(<<>>, sc, keyPath)],
        ResponseMatcher |->
            [NewResponseMatcher EXCEPT !.Config =
                loadObjectFields(<<>>, test.Response.Payload, FieldMatcherPath(<<>>, FALSE), 1)],
        ResponseHeaderMatcher |->
            [NewResponseMatcher EXCEPT !.Config =
                loadObjectFields(<<>>, test.Response.Headers, FieldMatcherPath(<<>>, FALSE), 1)]]

RECURSIVE Maps(_)
\* The objects of a response.
Maps(v) ==
    IF v.t = "map" THEN {v} \cup UNION {Maps(v.m[k]) : k \in DOMAIN v.m}
    ELSE IF v.t = "seq" THEN UNION {Maps(v.e[i]) : i \in 1..Len(v.e)}
    ELSE {}

Perms(keys) ==
    {p \in [1..Cardinality(keys) -> keys] : \A i, j \in 1..Cardinality(keys) : p[i] = p[j] => i = j}

\* The ways one search can range over the objects of a response: a key order
\* for every object.
Orders(v) ==
    {o \in [Maps(v) -> UNION {Perms(DOMAIN n.m) : n \in Maps(v)}] :
        \A n \in Maps(v) : o[n] \in Perms(DOMAIN n.m)}

\* Which matcher list Validate is running, and on what.
MatcherAt(p) ==
    CASE p = "code" -> "StatusCodeMatcher"
      [] p = "payload" -> "ResponseMatcher"
      [] OTHER -> "ResponseHeaderMatcher"

ResponseAt(p) ==
    CASE p = "code" -> M([code |-> I(result.StatusCode)])
      [] p = "payload" -> result.Response
      [] OTHER -> result.ResponseHeaders

NextAt(p) ==
    CASE p = "code" -> "payload"
      [] p = "payload" -> "headers"
      [] OTHER -> "wrap"

IdleMatch == MatchState(<<>>, <<>>, "idle", TRUE, <<>>, FALSE)

\* Validate calls Match on the next matcher list: validateEmpty and
\* SortConfigs have run.
ValidateMatch ==
    /\ pc \in {"code", "payload", "headers"}
    /\ match.phase = "idle"
    /\ match' = MatchBegin(case[MatcherAt(pc)], ResponseAt(pc))
    /\ UNCHANGED <<case, result, pc, outcome, GlobalDataStore, evalLog, suiteVars, multiVars, extVars>>

\* The state after one pass of MatchBase's loop.
MatchConfigStepped(step) ==
    /\ match' = step.ms
    /\ GlobalDataStore' = step.DS
    /\ evalLog' = IF step.eval = <<>> THEN evalLog
                  ELSE Append(evalLog, [list |-> pc, Keys |-> step.eval[1].Keys,
                                        Priority |-> step.eval[1].Priority,
                                        Node |-> step.eval[1].Node,
                                        sel |-> step.eval[1].sel])

\* One pass of MatchBase's loop; a capture lands in the store behind r.DS,
\* which is the suite store.
MatchConfigStep ==
    /\ match.phase = "loop"
    /\ \E ord \in Orders(ResponseAt(pc)) :
          MatchConfigStepped(MatchBaseStep(match, ResponseAt(pc), GlobalDataStore, ord))
    /\ UNCHANGED <<case, result, pc, outcome, suiteVars, multiVars, extVars>>

\* Match has returned to Validate: an error ends Validate, otherwise the
\* status is kept and the next list is matched.
ValidateCollect ==
    /\ match.phase = "returned"
    /\ case' = [case EXCEPT ![MatcherAt(pc)] = [Config |-> match.Config, NodeCache |-> match.NodeCache]]
    /\ outcome' = [outcome EXCEPT !.status[pc] = match.aggregatedStatus,
                                  !.err = match.err,
                                  !.results = IF match.err THEN match.results ELSE @ \o match.results]
    /\ pc' = IF match.err THEN "done" ELSE NextAt(pc)
    /\ match' = IdleMatch
    /\ UNCHANGED <<result, GlobalDataStore, evalLog, suiteVars, multiVars, extVars>>

\* "Wrap things up": on a pass, every key of the matcher's store is put into
\* the case's GlobalDataStore, which is that same store.
ValidateReturn ==
    /\ pc = "wrap"
    /\ LET passed == outcome.status["payload"] /\ outcome.status["headers"] /\ outcome.status["code"]
       IN /\ outcome' = [outcome EXCEPT !.passed = passed]
          /\ GlobalDataStore' = IF passed THEN PutAll(GlobalDataStore, GlobalDataStore)
                                ELSE GlobalDataStore
    /\ pc' = "done"
    /\ UNCHANGED <<case, result, match, evalLog, suiteVars, multiVars, extVars>>

RECURSIVE MatchBaseRun(_, _, _, _)

MatchBaseNext(step, response, ord) == MatchBaseRun(step.ms, response, step.DS, ord)

\* MatchBase's loop run to its return.
MatchBaseRun(ms, response, ds, ord) ==
    IF ms.phase = "returned" THEN [ms |-> ms, DS |-> ds]
    ELSE MatchBaseNext(MatchBaseStep(ms, response, ds, ord), response, ord)

\* ResponseMatcher.Match: the locals at its return and the store.
ResponseMatcherMatch(r, response, ds, ord) ==
    MatchBaseRun(MatchBegin(r, response), response, ds, ord)

AfterMatch(ms) == [Config |-> ms.Config, NodeCache |-> ms.NodeCache]

ValidateResult(passed, err, ds, test) == [passed |-> passed, err |-> err, DS |-> ds, test |-> test]

\* "Wrap things up", the header matchers having returned h.
ValidateHeaders(test, sPassed, status, h) ==
    IF h.ms.err
    THEN ValidateResult(FALSE, TRUE, h.DS, [test EXCEPT !.ResponseHeaderMatcher = AfterMatch(h.ms)])
    ELSE ValidateResult(status /\ h.ms.aggregatedStatus /\ sPassed, FALSE,
                        IF status /\ h.ms.aggregatedStatus /\ sPassed
                        THEN PutAll(h.DS, h.DS) ELSE h.DS,
                        [test EXCEPT !.ResponseHeaderMatcher = AfterMatch(h.ms)])

\* Validate response headers, the payload matchers having returned r.
ValidatePayload(test, res, ord, sPassed, r) ==
    IF r.ms.err
    THEN ValidateResult(FALSE, TRUE, r.DS, [test EXCEPT !.ResponseMatcher = AfterMatch(r.ms)])
    ELSE ValidateHeaders([test EXCEPT !.ResponseMatcher = AfterMatch(r.ms)], sPassed,
                         r.ms.aggregatedStatus,
                         ResponseMatcherMatch(test.ResponseHeaderMatcher, res.ResponseHeaders,
                                              r.DS, ord))

\* Validate response data, the status code matcher having returned s.
ValidateStatusCode(test, res, ord, s) ==
    IF s.ms.err
    THEN ValidateResult(FALSE, TRUE, s.DS, [test EXCEPT !.StatusCodeMatcher = AfterMatch(s.ms)])
    ELSE ValidatePayload([test EXCEPT !.StatusCodeMatcher = AfterMatch(s.ms)], res, ord,
                         s.ms.aggregatedStatus,
                         ResponseMatcherMatch(test.ResponseMatcher, res.Response, s.DS, ord))

\* JSONParser.Validate: status code, payload, headers, each list's error
\* returning at once; then the wrap-up.
Validate(test, res, ds, ord) ==
    ValidateStatusCode(test, res, ord,
        ResponseMatcherMatch(test.StatusCodeMatcher, M([code |-> I(res.StatusCode)]), ds, ord))

----------------------------------------------------------------------------
(* Resolving a case's input (subcommand.go, test-case.go)                  *)

\* A text that is one subcommand, "$(...)", whose process exits with `exit`
\* and prints `out`.
Cmd(exit, out) == [t |-> "cmd", exit |-> exit, out |-> out]

\* DataStore.RecursiveResolveVariables on an input object of texts: each
\* text is expanded; a text whose expansion returns nil (a failed
\* resolution too) is kept as it is, with no error.
RecursiveResolveVariables(ds, input) ==
    IF input.t = "map"
    THEN [node |-> M([k \in DOMAIN input.m |->
                        LET res == ExpandVariable(ds, input.m[k])
                        IN IF IsNil(res.value) THEN input.m[k] ELSE res.value]),
          err |-> FALSE]
    ELSE [node |-> input, err |-> FALSE]

\* ExecuteCommand on one text: the output of its subcommand, or the error of
\* a subcommand that exits non-zero; a text without "$(" is returned.
ExecuteCommand(input) ==
    IF input.t = "cmd"
    THEN IF input.exit # 0 THEN [value |-> S("Execution error"), err |-> TRUE]
         ELSE [value |-> S(input.out), err |-> FALSE]
    ELSE [value |-> input, err |-> FALSE]

\* RecursiveExecuteCommand on an input object: the first error ends it.
RecursiveExecuteCommand(input) ==
    IF input.t = "map"
    THEN IF \E k \in DOMAIN input.m : input.m[k].t \in {"str", "cmd", "var"} /\ ExecuteCommand(input.m[k]).err
         THEN [node |-> Null, err |-> TRUE]
         ELSE [node |-> M([k \in DOMAIN input.m |->
                             IF input.m[k].t \in {"str", "cmd", "var"}
                             THEN ExecuteCommand(input.m[k]).value ELSE input.m[k]]),
               err |-> FALSE]
    ELSE [node |-> input, err |-> FALSE]

\* TestCase.GetResolvedTestInput on an input object of one key.  Both
\* passes write their result back into the object they are given, which is
\* the case's Config.Input: `left` is what that object holds afterwards.
GetResolvedTestInput(ds, input) ==
    LET resolved == RecursiveResolveVariables(ds, input)
        executed == RecursiveExecuteCommand(resolved.node)
    IN IF resolved.err THEN [node |-> Null, err |-> TRUE, left |-> input]
       ELSE IF executed.err THEN [node |-> Null, err |-> TRUE, left |-> resolved.node]
       ELSE [node |-> executed.node, err |-> FALSE, left |-> executed.node]

ExecuteResult(passed, err, ds, test, sent) ==
    [passed |-> passed, err |-> err, DS |-> ds, test |-> test, sent |-> sent]

\* The end of Execute: what the validator's Handle returned (v) is returned.
ExecuteValidated(sent, v) == ExecuteResult(v.passed, v.err, v.DS, v.test, sent)

\* Execute once the input has been resolved: an input error and a transport
\* error are returned; otherwise the response is validated.
ExecuteResolved(test, w, ds, ord, input) ==
    IF input.err
    THEN ExecuteResult(FALSE, TRUE, ds, [test EXCEPT !.Config.Input = input.left], Null)
    ELSE IF w.fail
    THEN ExecuteResult(FALSE, TRUE, ds, [test EXCEPT !.Config.Input = input.left], input.node)
    ELSE ExecuteValidated(input.node,
             Validate([test EXCEPT !.Config.Input = input.left], w, ds, ord))

\* TestCase.Execute on a REST case with no tags asked for.  `w` is what the
\* transport does with the request: it fails, or it returns a response.
\* Yields passed, err, the store, the case afterwards, and the input sent.
Execute(test, w, ds, ord) ==
    IF test.Config.Skip
    THEN ExecuteResult(TRUE, FALSE, ds, test, Null)
    ELSE ExecuteResolved(test, w, ds, ord, GetResolvedTestInput(ds, test.Config.Input))

----------------------------------------------------------------------------
(* Running a suite (suite.go)                                              *)

\* A loop that ignores the exit flag.
ExitIgnored(test) == FALSE

\* if test.Config.ExitOnRun { break }
ExitOnRun(test) == test.Config.ExitOnRun

\* The locals of ExecuteTests after a case that returned no error.
OnCaseDone(r, passed) ==
    [r EXCEPT !.testIndex = @ + 1,
              !.anyFailed = @ \/ ~passed,
              !.suiteResults.Passed = IF passed THEN @ + 1 ELSE @,
              !.suiteResults.Failed = IF passed THEN @ ELSE @ + 1,
              !.suiteResults.Results = Append(@, [index |-> r.testIndex, Passed |-> passed])]

\* A loop that records the case as failed and goes on to the next case.
OnCaseErrorContinue(r) ==
    [r EXCEPT !.testIndex = @ + 1, !.anyFailed = TRUE,
              !.suiteResults.Failed = @ + 1,
              !.suiteResults.Results = Append(@, [index |-> r.testIndex, Passed |-> FALSE])]

\* if err != nil { return false, suiteResults, err }
OnCaseError(r) == [r EXCEPT !.returned = TRUE, !.status = FALSE, !.err = TRUE]

\* The loop is left, by its end or by break: return !anyFailed, suiteResults, nil
OnLoopEnd(r) == [r EXCEPT !.returned = TRUE, !.status = ~r.anyFailed, !.err = FALSE]

NewRun(total) ==
    [testIndex |-> 1, anyFailed |-> FALSE,
     suiteResults |-> [Passed |-> 0, Failed |-> 0, Total |-> total, Results |-> <<>>],
     returned |-> FALSE, status |-> FALSE, err |-> FALSE]

\* The responses one Execute validates, for the key orders of its searches.
WireNodes(w) == A(<<M([code |-> I(w.StatusCode)]), w.Response, w.ResponseHeaders>>)

ExecEntry(index, ex, before) ==
    [index |-> index, passed |-> ex.passed, err |-> ex.err, sent |-> ex.sent,
     before |-> before, after |-> ex.DS]

\* The next case is flagged exit: the loop breaks before executing it.
ExecuteTestsBreak ==
    /\ ~run.returned
    /\ run.testIndex <= Len(suite.Tests)
    /\ ExitOnRun(suite.Tests[run.testIndex])
    /\ run' = OnLoopEnd(run)
    /\ UNCHANGED <<suite, wire, execLog, GlobalDataStore, matchVars, multiVars, extVars>>

\* The state after a case that returned no error.
CaseDone(ex) ==
    /\ ~ex.err
    /\ run' = OnCaseDone(run, ex.passed)
    /\ suite' = [suite EXCEPT !.Tests[run.testIndex] = ex.test]
    /\ GlobalDataStore' = ex.DS
    /\ execLog' = Append(execLog, ExecEntry(run.testIndex, ex, GlobalDataStore))

\* The state after a case that returned an error.
CaseError(ex) ==
    /\ ex.err
    /\ run' = OnCaseError(run)
    /\ suite' = [suite EXCEPT !.Tests[run.testIndex] = ex.test]
    /\ GlobalDataStore' = ex.DS
    /\ execLog' = Append(execLog, ExecEntry(run.testIndex, ex, GlobalDataStore))

\* The next case is executed and returns no error.
ExecuteTestsCase ==
    /\ ~run.returned
    /\ run.testIndex <= Len(suite.Tests)
    /\ ~ExitOnRun(suite.Tests[run.testIndex])
    /\ \E ord \in Orders(WireNodes(wire[run.testIndex])) :
          CaseDone(Execute(suite.Tests[run.testIndex], wire[run.testIndex], GlobalDataStore, ord))
    /\ UNCHANGED <<wire, matchVars, multiVars, extVars>>

\* The next case is executed and returns an error.
ExecuteTestsError ==
    /\ ~run.returned
    /\ run.testIndex <= Len(suite.Tests)
    /\ ~ExitOnRun(suite.Tests[run.testIndex])
    /\ \E ord \in Orders(WireNodes(wire[run.testIndex])) :
          CaseError(Execute(suite.Tests[run.testIndex], wire[run.testIndex], GlobalDataStore, ord))
    /\ UNCHANGED <<wire, matchVars, multiVars, extVars>>

\* Every case has been executed.
ExecuteTestsReturn ==
    /\ ~run.returned
    /\ run.testIndex > Len(suite.Tests)
    /\ run' = OnLoopEnd(run)
    /\ UNCHANGED <<suite, wire, execLog, GlobalDataStore, matchVars, multiVars, extVars>>

----------------------------------------------------------------------------
(* The cases and responses the validation is checked on                    *)

\* The payload definition of the README's data storage example: an unsorted
\* array `data` of one item object with `email` and `id`.  With `tags`, the
\* item object also holds an unsorted array `tags` of one string.
EmailDef(priority, pattern) == FieldDef("string", S(pattern), priority, "", TRUE, <<>>, <<>>)
IdDef(priority) == FieldDef("integer", S(ANY_PATTERN), priority, "uid", TRUE, <<>>, <<>>)
TagsDef == FieldDef("array", S(NotEmpty), DEFAULT_PRIORITY, "", FALSE, <<S("x")>>, <<>>)

ItemProperties(emailPriority, idPriority, pattern, withTags) ==
    {<<"email", EmailDef(emailPriority, pattern)>>, <<"id", IdDef(idPriority)>>}
        \cup (IF withTags THEN {<<"tags", TagsDef>>} ELSE {})

DataDef(properties) ==
    FieldDef("array", S(NotEmpty), DEFAULT_PRIORITY, "", FALSE,
             <<FieldDef("object", Null, DEFAULT_PRIORITY, "", TRUE, <<>>, properties)>>, <<>>)

\* With `owner`, the item object holds an object `owner` with a `name`.
OwnerDef ==
    FieldDef("object", Null, DEFAULT_PRIORITY, "", TRUE, <<>>,
             <<<<"name", EmailDef(DEFAULT_PRIORITY, "a@b")>>>>)

PrioritySet == {0, 1}
PatternSet == {"a@b", "n@m"}

\* What a case expects of the header: a text, or the value of a variable
\* that no case sets.
HeaderPatterns == {S("json"), V("missing")}

\* The case definitions: every priority pair, pattern, and visiting order of
\* the item's properties; the status code 200 and one header are expected.
Cases ==
    {[Response |-> [StatusCode |-> I(200),
                    Payload |-> <<<<"data", DataDef(properties)>>>>,
                    Headers |-> <<<<"ct", header>>>>]] :
        properties \in UNION {Perms(ItemProperties(pr[1], pr[2], pattern, withTags)) :
                                 pr \in {<<0, 1>>, <<1, 0>>} \cap (PrioritySet \X PrioritySet),
                                 pattern \in PatternSet, withTags \in BOOLEAN},
        header \in HeaderPatterns}
    \cup {[Response |-> [StatusCode |-> I(200),
                         Payload |-> <<<<"data", DataDef(properties)>>>>,
                         Headers |-> <<<<"ct", S("json")>>>>]] :
              properties \in Perms({<<"id", IdDef(DEFAULT_PRIORITY)>>, <<"owner", OwnerDef>>})}

Element(email, id) == M([email |-> S(email), id |-> I(id)])
TaggedElement(email, id, tag) == M([email |-> S(email), id |-> I(id), tags |-> A(<<S(tag)>>)])

E3Response == M([data |-> A(<<Element("x@y", 1), Element("a@b", 42)>>)])
TaggedResponse == M([data |-> A(<<TaggedElement("x@y", 1, "y"), TaggedElement("a@b", 42, "x")>>)])

\* A response without a payload: null, an empty object, an empty array.
EmptyResponses == {Null, M(<<>>), A(<<>>)}

OwnedElement(id, name) == M([id |-> I(id), owner |-> M([name |-> S(name)])])
OwnedResponse == M([data |-> A(<<OwnedElement(1, "n@m"), OwnedElement(42, "a@b")>>)])

Responses == {E3Response, TaggedResponse, OwnedResponse} \cup EmptyResponses
StatusCodes == {200, 500}
HeaderValues == {"json", "xml"}

NoOutcome ==
    [status |-> [code |-> FALSE, payload |-> FALSE, headers |-> FALSE],
     passed |-> FALSE, err |-> FALSE, results |-> <<>>]

\* No suite with websocket cases is loaded.
WsIdle ==
    /\ wsTests = <<>>
    /\ wsRun = [testIndex |-> 1, returned |-> TRUE, err |-> FALSE, panic |-> FALSE]
    /\ wsState = [store |-> <<>>, conns |-> <<>>, panic |-> FALSE]
    /\ wsLog = <<>>

\* No single function is being called.
CallIdle ==
    /\ call = [fn |-> "none"]
    /\ ret = <<>>

ExtIdle == WsIdle /\ CallIdle

\* No suite is being executed on its own.
SuiteIdle ==
    /\ suite = [Tests |-> <<>>]
    /\ wire = <<>>
    /\ run = [testIndex |-> 1, anyFailed |-> FALSE,
              suiteResults |-> [Passed |-> 0, Failed |-> 0, Total |-> 0, Results |-> <<>>],
              returned |-> TRUE, status |-> TRUE, err |-> FALSE]
    /\ execLog = <<>>
    /\ GlobalDataStore = <<>>

\* No multi-suite run is under way.
MultiIdle ==
    /\ Suites = <<>>
    /\ transport = <<>>
    /\ stores = <<>>
    /\ threads = 0
    /\ workerMessages = [buf |-> <<>>, closed |-> TRUE]
    /\ workerResults = <<>>
    /\ workers = <<>>
    /\ main = [pc |-> "returned", sent |-> {}, i |-> 0, results |-> <<>>,
               aggregateStatus |-> TRUE]
    /\ wg = 0
    /\ received = <<>>
    /\ accessed = {}

Init ==
    /\ case \in {LoadConfig(test) : test \in Cases}
    /\ result \in [StatusCode : StatusCodes, Response : Responses,
                   ResponseHeaders : {M([ct |-> S(h)]) : h \in HeaderValues}]
    /\ match = IdleMatch
    /\ pc = "code"
    /\ outcome = NoOutcome
    /\ GlobalDataStore = EmptyStore
    /\ evalLog = <<>>
    /\ suite = [Tests |-> <<>>]
    /\ wire = <<>>
    /\ run = OnLoopEnd(NewRun(0))
    /\ execLog = <<>>
    /\ MultiIdle
    /\ ExtIdle

Next ==
    \/ ValidateMatch
    \/ MatchConfigStep
    \/ ValidateCollect
    \/ ValidateReturn

Spec == Init /\ [][Next]_vars

----------------------------------------------------------------------------
(* The suites the suite loop is checked on                                 *)

TestCaseCfg(skip, exit, input, payload) ==
    [Skip |-> skip, ExitOnRun |-> exit, Input |-> M([user |-> input]),
     Response |-> [StatusCode |-> I(200), Payload |-> payload, Headers |-> <<>>]]

CaptureId == <<<<"id", FieldDef("integer", S(ANY_PATTERN), DEFAULT_PRIORITY, "uid", TRUE, <<>>, <<>>)>>>>

Wire(fail, statusCode, id) ==
    [fail |-> fail, StatusCode |-> statusCode, Response |-> M([id |-> I(id)]),
     ResponseHeaders |-> M([ct |-> S("json")])]

\* A case and what the transport does with it: cases that capture the
\* response's id as uid (on a 200 and on a 500), a case that sends @{uid}, a
\* skipped case, an exit case, a case whose subcommand exits non-zero or
\* zero, and a case whose transport fails.
Steps ==
    {[test |-> TestCaseCfg(FALSE, FALSE, S("lit"), CaptureId), wire |-> Wire(FALSE, 200, 42)],
     [test |-> TestCaseCfg(FALSE, FALSE, S("lit"), CaptureId), wire |-> Wire(FALSE, 200, 7)],
     [test |-> TestCaseCfg(FALSE, FALSE, S("lit"), CaptureId), wire |-> Wire(FALSE, 500, 7)],
     [test |-> TestCaseCfg(FALSE, FALSE, V("uid"), <<>>), wire |-> Wire(FALSE, 200, 1)],
     [test |-> TestCaseCfg(TRUE, FALSE, S("lit"), <<>>), wire |-> Wire(FALSE, 200, 1)],
     [test |-> TestCaseCfg(FALSE, TRUE, S("lit"), <<>>), wire |-> Wire(FALSE, 200, 1)],
     [test |-> TestCaseCfg(FALSE, FALSE, Cmd(1, ""), <<>>), wire |-> Wire(FALSE, 200, 1)],
     [test |-> TestCaseCfg(FALSE, FALSE, Cmd(0, "out"), <<>>), wire |-> Wire(FALSE, 200, 1)],
     [test |-> TestCaseCfg(FALSE, FALSE, V("uid"), <<>>), wire |-> Wire(TRUE, 200, 1)]}

MaxTests == 3

\* No case is being validated on its own.
MatchIdle ==
    /\ case = LoadConfig(TestCaseCfg(FALSE, FALSE, S("lit"), <<>>))
    /\ result = Wire(FALSE, 200, 1)
    /\ match = IdleMatch
    /\ pc = "done"
    /\ outcome = NoOutcome
    /\ evalLog = <<>>

\* A suite file has been loaded: every case points at the suite's store.
SuiteInit ==
    /\ \E n \in 1..MaxTests : \E steps \in [1..n -> Steps] :
          /\ suite = [Tests |-> [i \in 1..n |-> LoadConfig(steps[i].test)]]
          /\ wire = [i \in 1..n |-> steps[i].wire]
          /\ run = NewRun(n)
    /\ execLog = <<>>
    /\ GlobalDataStore = EmptyStore
    /\ MatchIdle
    /\ MultiIdle
    /\ ExtIdle

SuiteNext ==
    \/ ExecuteTestsBreak
    \/ ExecuteTestsCase
    \/ ExecuteTestsError
    \/ ExecuteTestsReturn

SuiteSpec == SuiteInit /\ [][SuiteNext]_vars

----------------------------------------------------------------------------
(* Running the suites of a directory on a pool of workers (multi-suite.go) *)

\* A loader that hands every suite the same data store.
NewTestSuiteShared(testFile, tests) ==
    [GlobalDataStore |-> 1, File |-> testFile,
     Tests |-> [i \in 1..Len(tests) |-> LoadConfig(tests[i])],
     run |-> NewRun(Len(tests))]

\* NewTestSuite: the suite of a file gets a data store of its own, and its
\* loaded cases point at it.  tests are the definitions in the file.
NewTestSuite(testFile, tests) ==
    [GlobalDataStore |-> testFile, File |-> testFile,
     Tests |-> [i \in 1..Len(tests) |-> LoadConfig(tests[i])],
     run |-> NewRun(Len(tests))]

\* ProgramArgs.Init: a negative -threads becomes 1.
Threads(flag) == IF flag < 0 THEN 1 ELSE flag

\* A pool with one worker more than asked for.
WorkersAndOne(n) == 1..(n + 1)

\* for i := 0; i < threads; i++ { go func() ... }: the workers started.
Workers(n) == 1..n

\* A receive that leaves the message in the channel.
ReceiveAndLeave(ch) == [m |-> Head(ch.buf), ch |-> ch]

\* m, ok := <-workerMessages on a channel with a message in its buffer.
Receive(ch) == [m |-> Head(ch.buf), ch |-> [ch EXCEPT !.buf = Tail(@)]]

MultiSuiteWorker(k) == [Suite |-> k, TestFile |-> k]

MultiSuiteResult(status, suiteResults, err, file) ==
    [Passed |-> status, Error |-> err, TestFile |-> file, TestResults |-> suiteResults]

\* The worker is inside m.Suite.ExecuteTests.
Executing(w) == workers[w].pc = "exec"

\* for k := range t.Suites { workerMessages <- msg }: one more suite, in
\* the order the range happens to take, is sent; the channel has room for all.
MainSend ==
    /\ main.pc = "send"
    /\ \E k \in (DOMAIN Suites) \ main.sent :
          /\ workerMessages' = [workerMessages EXCEPT !.buf = Append(@, MultiSuiteWorker(k))]
          /\ main' = [main EXCEPT !.sent = @ \cup {k}]
    /\ UNCHANGED <<Suites, transport, stores, threads, workerResults, workers, wg,
                   received, accessed, matchVars, GlobalDataStore, suiteVars, extVars>>

\* close(workerMessages)
MainClose ==
    /\ main.pc = "send"
    /\ main.sent = DOMAIN Suites
    /\ workerMessages' = [workerMessages EXCEPT !.closed = TRUE]
    /\ main' = [main EXCEPT !.pc = "collect"]
    /\ UNCHANGED <<Suites, transport, stores, threads, workerResults, workers, wg,
                   received, accessed, matchVars, GlobalDataStore, suiteVars, extVars>>

\* d := <-workerResults, once for every suite.
MainCollect ==
    /\ main.pc = "collect"
    /\ main.i < Cardinality(DOMAIN Suites)
    /\ workerResults # <<>>
    /\ main' = [main EXCEPT !.i = @ + 1,
                            !.results = Append(@, Head(workerResults)),
                            !.aggregateStatus = @ /\ Head(workerResults).Passed]
    /\ workerResults' = Tail(workerResults)
    /\ UNCHANGED <<Suites, transport, stores, threads, workerMessages, workers, wg,
                   received, accessed, matchVars, GlobalDataStore, suiteVars, extVars>>

\* wg.Wait() and the return.
MainReturn ==
    /\ main.pc = "collect"
    /\ main.i = Cardinality(DOMAIN Suites)
    /\ wg = 0
    /\ main' = [main EXCEPT !.pc = "returned"]
    /\ UNCHANGED <<Suites, transport, stores, threads, workerMessages, workerResults,
                   workers, wg, received, accessed, matchVars, GlobalDataStore, suiteVars, extVars>>

\* The state after a worker has taken what Receive yields.
WorkerReceived(w, rcv) ==
    /\ workers' = [workers EXCEPT ![w] = [pc |-> "exec", m |-> rcv.m]]
    /\ workerMessages' = rcv.ch
    /\ received' = Append(received, [worker |-> w, Suite |-> rcv.m.Suite])

\* m, ok := <-workerMessages with ok: the worker enters m.Suite.ExecuteTests.
WorkerReceive(w) ==
    /\ workers[w].pc = "recv"
    /\ workerMessages.buf # <<>>
    /\ WorkerReceived(w, Receive(workerMessages))
    /\ UNCHANGED <<Suites, transport, stores, threads, workerResults, main, wg,
                   accessed, matchVars, GlobalDataStore, suiteVars, extVars>>

\* m, ok := <-workerMessages with !ok: wg.Done() and return.
WorkerDone(w) ==
    /\ workers[w].pc = "recv"
    /\ workerMessages.buf = <<>>
    /\ workerMessages.closed
    /\ workers' = [workers EXCEPT ![w].pc = "done"]
    /\ wg' = wg - 1
    /\ UNCHANGED <<Suites, transport, stores, threads, workerMessages, workerResults,
                   main, received, accessed, matchVars, GlobalDataStore, suiteVars, extVars>>

\* The state after the suite k has executed its next case on worker w.
WorkerCaseExecuted(w, k, ex) ==
    /\ Suites' = [Suites EXCEPT
                     ![k].run = IF ex.err THEN OnCaseError(@) ELSE OnCaseDone(@, ex.passed),
                     ![k].Tests[Suites[k].run.testIndex] = ex.test]
    /\ stores' = [stores EXCEPT ![Suites[k].GlobalDataStore] = ex.DS]
    /\ accessed' = accessed \cup {[worker |-> w, Suite |-> k,
                                   store |-> Suites[k].GlobalDataStore,
                                   index |-> Suites[k].run.testIndex]}

\* One case of m.Suite.ExecuteTests on a worker: the case works on the store
\* the suite points at.
WorkerCase(w) ==
    /\ Executing(w)
    /\ ~Suites[workers[w].m.Suite].run.returned
    /\ Suites[workers[w].m.Suite].run.testIndex <= Len(Suites[workers[w].m.Suite].Tests)
    /\ ~ExitOnRun(Suites[workers[w].m.Suite].Tests[Suites[workers[w].m.Suite].run.testIndex])
    /\ \E ord \in Orders(WireNodes(transport[workers[w].m.Suite]
                                            [Suites[workers[w].m.Suite].run.testIndex])) :
          WorkerCaseExecuted(w, workers[w].m.Suite,
              Execute(Suites[workers[w].m.Suite].Tests[Suites[workers[w].m.Suite].run.testIndex],
                      transport[workers[w].m.Suite][Suites[workers[w].m.Suite].run.testIndex],
                      stores[Suites[workers[w].m.Suite].GlobalDataStore], ord))
    /\ UNCHANGED <<transport, threads, workerMessages, workerResults, workers, main, wg,
                   received, matchVars, GlobalDataStore, suiteVars, extVars>>

\* m.Suite.ExecuteTests leaves its loop, by the end of the cases or by an
\* exit case.
WorkerLoopEnd(w) ==
    /\ Executing(w)
    /\ ~Suites[workers[w].m.Suite].run.returned
    /\ \/ Suites[workers[w].m.Suite].run.testIndex > Len(Suites[workers[w].m.Suite].Tests)
       \/ /\ Suites[workers[w].m.Suite].run.testIndex <= Len(Suites[workers[w].m.Suite].Tests)
          /\ ExitOnRun(Suites[workers[w].m.Suite].Tests[Suites[workers[w].m.Suite].run.testIndex])
    /\ Suites' = [Suites EXCEPT ![workers[w].m.Suite].run = OnLoopEnd(@)]
    /\ UNCHANGED <<transport, stores, threads, workerMessages, workerResults, workers,
                   main, wg, received, accessed, matchVars, GlobalDataStore, suiteVars, extVars>>

\* workerResults <- r, once ExecuteTests has returned; the send waits for
\* room in the channel.
WorkerSend(w) ==
    /\ Executing(w)
    /\ Suites[workers[w].m.Suite].run.returned
    /\ Len(workerResults) < threads
    /\ workerResults' = Append(workerResults,
                               MultiSuiteResult(Suites[workers[w].m.Suite].run.status,
                                                Suites[workers[w].m.Suite].run.suiteResults,
                                                Suites[workers[w].m.Suite].run.err,
                                                workers[w].m.TestFile))
    /\ workers' = [workers EXCEPT ![w].pc = "recv"]
    /\ UNCHANGED <<Suites, transport, stores, threads, workerMessages, main, wg,
                   received, accessed, matchVars, GlobalDataStore, suiteVars, extVars>>

CaptureStep(statusCode, id) ==
    [test |-> TestCaseCfg(FALSE, FALSE, S("lit"), CaptureId), wire |-> Wire(FALSE, statusCode, id)]

UseStep == [test |-> TestCaseCfg(FALSE, FALSE, V("uid"), <<>>), wire |-> Wire(FALSE, 200, 1)]

ExitStep == [test |-> TestCaseCfg(FALSE, TRUE, S("lit"), <<>>), wire |-> Wire(FALSE, 200, 1)]

\* The suite files of a directory: each captures uid and uses it.
SuiteFiles ==
    {<<CaptureStep(200, 42), UseStep>>,
     <<CaptureStep(200, 7), ExitStep>>,
     <<CaptureStep(500, 7)>>}

MaxSuites == 2
MaxThreads == 2

\* The directory has been loaded and ExecuteTests has started its workers.
MultiInit ==
    /\ \E n \in 1..MaxSuites : \E files \in [1..n -> SuiteFiles] :
          /\ Suites = [k \in 1..n |->
                          NewTestSuite(k, [i \in 1..Len(files[k]) |-> files[k][i].test])]
          /\ transport = [k \in 1..n |-> [i \in 1..Len(files[k]) |-> files[k][i].wire]]
    /\ stores = [id \in {Suites[k].GlobalDataStore : k \in DOMAIN Suites} |-> EmptyStore]
    /\ \E flag \in (-1)..MaxThreads : threads = Threads(flag)
    /\ workerMessages = [buf |-> <<>>, closed |-> FALSE]
    /\ workerResults = <<>>
    /\ workers = [w \in Workers(threads) |-> [pc |-> "recv", m |-> MultiSuiteWorker(0)]]
    /\ main = [pc |-> "send", sent |-> {}, i |-> 0, results |-> <<>>, aggregateStatus |-> TRUE]
    /\ wg = threads
    /\ received = <<>>
    /\ accessed = {}
    /\ suite = [Tests |-> <<>>]
    /\ wire = <<>>
    /\ run = OnLoopEnd(NewRun(0))
    /\ execLog = <<>>
    /\ GlobalDataStore = EmptyStore
    /\ MatchIdle
    /\ ExtIdle

MultiNext ==
    \/ MainSend
    \/ MainClose
    \/ MainCollect
    \/ MainReturn
    \/ \E w \in DOMAIN workers : WorkerReceive(w)
    \/ \E w \in DOMAIN workers : WorkerDone(w)
    \/ \E w \in DOMAIN workers : WorkerCase(w)
    \/ \E w \in DOMAIN workers : WorkerLoopEnd(w)
    \/ \E w \in DOMAIN workers : WorkerSend(w)

MultiSpec == MultiInit /\ [][MultiNext]_vars

----------------------------------------------------------------------------
(* Websocket sessions of a suite (test-case.go, testexecute.go, suite.go)  *)

\* What the suite store holds under DS_WS_CLIENT: nothing, a connection, or
\* a value some matcher stored under that name.
NoClient == <<>>
Conn(id) == <<[conn |-> id]>>
NotAConn == <<[conn |-> 0]>>

\* A CloseWebsocket that leaves the connection as it is.
CloseWebsocketNot(st) == st

\* TestCase.CloseWebsocket: the stored client is closed and deleted; the type
\* assertion panics on a stored value that is no connection.
CloseWebsocket(st) ==
    IF st.panic \/ st.store = NoClient THEN st
    ELSE IF st.store = NotAConn THEN [st EXCEPT !.panic = TRUE]
    ELSE [st EXCEPT !.conns[st.store[1].conn] = "closed", !.store = NoClient]

RECURSIVE Close(_, _, _)
\* TestSuite.Close: CloseWebsocket on every case, from the i-th on.
Close(tests, st, i) ==
    IF i > Len(tests) THEN st ELSE Close(tests, CloseWebsocket(st), i + 1)

\* TestCase.GetWebsocketClient: the stored client is re-used (the type
\* assertion panics on a value that is no connection); with none stored a
\* connection is dialled and put into the store, unless the dial fails.
GetWebsocketClient(st, dialFails) ==
    IF st.store = NotAConn
    THEN [st |-> [st EXCEPT !.panic = TRUE], client |-> 0, opened |-> FALSE, err |-> FALSE]
    ELSE IF st.store # NoClient
    THEN [st |-> st, client |-> st.store[1].conn, opened |-> FALSE, err |-> FALSE]
    ELSE IF dialFails
    THEN [st |-> st, client |-> 0, opened |-> FALSE, err |-> TRUE]
    ELSE [st |-> [st EXCEPT !.conns = Append(@, "open"), !.store = Conn(Len(st.conns) + 1)],
          client |-> Len(st.conns) + 1, opened |-> TRUE, err |-> FALSE]

\* A deferred close that the close flag of the input does not reach.
DeferCloseNever(close, st) == st

\* if inputs.Close { defer func() { test.CloseWebsocket() }() }
DeferClose(close, st) == IF close THEN CloseWebsocket(st) ELSE st

\* executeWebSocket once the client has been obtained (g): the requests are
\* sent, and the deferred close runs whether or not they failed.
executeWebSocketWith(test, g) ==
    IF g.st.panic \/ g.err
    THEN [st |-> g.st, err |-> g.err, used |-> <<>>]
    ELSE [st |-> DeferClose(test.Close, g.st), err |-> test.requestFails,
          used |-> <<[conn |-> g.client, opened |-> g.opened, close |-> test.Close]>>]

\* executeWebSocket
executeWebSocket(test, st) == executeWebSocketWith(test, GetWebsocketClient(st, test.dialFails))

\* The end of Execute on a websocket case (x is what executeWebSocket
\* yielded): without an error the response is validated, and a capture
\* named ws lands in the suite store.
ExecuteWsValidated(test, x) ==
    IF x.st.panic \/ x.err \/ ~test.storesWs THEN x
    ELSE [x EXCEPT !.st.store = NotAConn]

\* TestCase.Execute as far as the websocket client is concerned: a skipped
\* case does nothing, a REST case only validates.
ExecuteWs(test, st) ==
    IF test.Skip THEN [st |-> st, err |-> FALSE, used |-> <<>>]
    ELSE IF test.Websocket THEN ExecuteWsValidated(test, executeWebSocket(test, st))
    ELSE ExecuteWsValidated(test, [st |-> st, err |-> FALSE, used |-> <<>>])

\* A case of a suite and what the network does with it.
WsCase(skip, exit, websocket, close, storesWs, dialFails, requestFails) ==
    [Skip |-> skip, ExitOnRun |-> exit, Websocket |-> websocket, Close |-> close,
     storesWs |-> storesWs, dialFails |-> dialFails, requestFails |-> requestFails]

WsCases ==
    {WsCase(FALSE, FALSE, TRUE, FALSE, FALSE, FALSE, FALSE),
     WsCase(FALSE, FALSE, TRUE, TRUE, FALSE, FALSE, FALSE),
     WsCase(FALSE, FALSE, TRUE, FALSE, FALSE, TRUE, FALSE),
     WsCase(FALSE, FALSE, TRUE, FALSE, FALSE, FALSE, TRUE),
     WsCase(FALSE, FALSE, TRUE, TRUE, FALSE, FALSE, TRUE),
     WsCase(FALSE, FALSE, TRUE, FALSE, TRUE, FALSE, FALSE),
     WsCase(FALSE, FALSE, FALSE, FALSE, FALSE, FALSE, FALSE),
     WsCase(TRUE, FALSE, TRUE, FALSE, FALSE, FALSE, FALSE),
     WsCase(FALSE, TRUE, TRUE, FALSE, FALSE, FALSE, FALSE)}

MaxWsTests == 3

\* The state after the next case has been executed (x): an error returns
\* from ExecuteTests, and the deferred Close runs before the return.
WsCaseExecuted(x) ==
    /\ wsLog' = IF x.used = <<>> THEN wsLog
                ELSE Append(wsLog, [index |-> wsRun.testIndex, conn |-> x.used[1].conn,
                                    opened |-> x.used[1].opened, close |-> x.used[1].close])
    /\ IF x.st.panic
       THEN /\ wsState' = x.st
            /\ wsRun' = [wsRun EXCEPT !.panic = TRUE]
       ELSE IF x.err
       THEN /\ wsState' = Close(wsTests, x.st, 1)
            /\ wsRun' = [wsRun EXCEPT !.err = TRUE, !.returned = ~Close(wsTests, x.st, 1).panic,
                                      !.panic = Close(wsTests, x.st, 1).panic]
       ELSE /\ wsState' = x.st
            /\ wsRun' = [wsRun EXCEPT !.testIndex = @ + 1]

\* ExecuteTests executes its next case.
WsExecuteCase ==
    /\ ~wsRun.returned /\ ~wsRun.panic
    /\ wsRun.testIndex <= Len(wsTests)
    /\ ~wsTests[wsRun.testIndex].ExitOnRun
    /\ WsCaseExecuted(ExecuteWs(wsTests[wsRun.testIndex], wsState))
    /\ UNCHANGED <<wsTests, matchVars, GlobalDataStore, suiteVars, multiVars, callVars>>

\* ExecuteTests leaves its loop, at the end of the cases or at an exit case;
\* the deferred Close runs before the return.
WsLoopEnd ==
    /\ ~wsRun.returned /\ ~wsRun.panic
    /\ \/ wsRun.testIndex > Len(wsTests)
       \/ /\ wsRun.testIndex <= Len(wsTests)
          /\ wsTests[wsRun.testIndex].ExitOnRun
    /\ wsState' = Close(wsTests, wsState, 1)
    /\ wsRun' = [wsRun EXCEPT !.returned = ~Close(wsTests, wsState, 1).panic,
                              !.panic = Close(wsTests, wsState, 1).panic]
    /\ UNCHANGED <<wsTests, wsLog, matchVars, GlobalDataStore, suiteVars, multiVars, callVars>>

WsInit ==
    /\ \E n \in 1..MaxWsTests : wsTests \in [1..n -> WsCases]
    /\ wsRun = [testIndex |-> 1, returned |-> FALSE, err |-> FALSE, panic |-> FALSE]
    /\ wsState = [store |-> NoClient, conns |-> <<>>, panic |-> FALSE]
    /\ wsLog = <<>>
    /\ CallIdle
    /\ MatchIdle
    /\ SuiteIdle
    /\ MultiIdle

WsNext ==
    \/ WsExecuteCase
    \/ WsLoopEnd

WsSpec == WsInit /\ [][WsNext]_vars

----------------------------------------------------------------------------
(* Numeric expressions: one Match call of an integer matcher or of an      *)
(* array matcher whose pattern or length is `$< N`, `$<= N`, `$> N` or     *)
(* `$>= N`                                                                 *)

MaxOperand == 3
MaxNumber == 3

\* The expression texts: an operator, a space or none, the operand.
NumExprs ==
    {[op |-> TrimPrefix(NumOps[o], <<"$">>), operand |-> n,
      text |-> NumOps[o] \o sp \o FormatInt(n)] :
        o \in 1..Len(NumOps), sp \in {<<>>, <<" ">>}, n \in 0..MaxOperand}

\* An array of n elements.
ArrayOf(n) == A([i \in 1..n |-> Null])

NumInit ==
    /\ \E e \in NumExprs, x \in 0..MaxNumber, fn \in {"IntegerMatcher.Match", "ArrayMatcher.Match"} :
           call = [fn |-> fn, expr |-> e, number |-> x]
    /\ ret = <<>>
    /\ WsIdle
    /\ MatchIdle
    /\ SuiteIdle
    /\ MultiIdle

\* (&IntegerMatcher{Pattern: expr}).Match(number, store)
CallIntegerMatch ==
    /\ ret = <<>>
    /\ call.fn = "IntegerMatcher.Match"
    /\ ret' = <<IntegerMatch(Matcher("integer", X(call.expr.text), DEFAULT_PRIORITY, "", TRUE),
                             I(call.number), EmptyStore)>>
    /\ UNCHANGED <<call, matchVars, GlobalDataStore, suiteVars, multiVars, wsVars>>

\* (&ArrayMatcher{LengthStr: expr}).Match(array of `number` elements, store)
CallArrayMatch ==
    /\ ret = <<>>
    /\ call.fn = "ArrayMatcher.Match"
    /\ ret' = <<ArrayMatch(Matcher("array", X(call.expr.text), DEFAULT_PRIORITY, "", TRUE),
                           ArrayOf(call.number), EmptyStore)>>
    /\ UNCHANGED <<call, matchVars, GlobalDataStore, suiteVars, multiVars, wsVars>>

NumNext ==
    \/ CallIntegerMatch
    \/ CallArrayMatch

NumSpec == NumInit /\ [][NumNext]_vars

----------------------------------------------------------------------------
(* The keyed store: paths (obj-utils.go, subcommand.go), PutJsonValue and  *)
(* GetJsonValue, DataStore.PutVariable and DataStore.resolveVariable       *)
(*                                                                         *)
(* A path text is the sequence of its symbols: ".", "[", "]", "@", "{",    *)
(* "}", digits, and words.  It holds no quote, backslash or space.  A key  *)
(* name is the run of symbols between two delimiters, and a map of a store *)
(* is a function from key names to values.  A text value is X(run).        *)

\* A run of symbols cut out of input at the symbols of delimiters; empty
\* runs are kept or dropped as the caller asks.
RECURSIVE SplitRuns(_, _, _, _, _, _)
SplitRuns(input, delimiters, keepEmpty, i, cur, acc) ==
    IF i > Len(input)
    THEN IF cur # <<>> \/ keepEmpty THEN Append(acc, cur) ELSE acc
    ELSE IF input[i] \in delimiters
    THEN SplitRuns(input, delimiters, keepEmpty, i + 1, <<>>,
             IF cur # <<>> \/ keepEmpty THEN Append(acc, cur) ELSE acc)
    ELSE SplitRuns(input, delimiters, keepEmpty, i + 1, Append(cur, input[i]), acc)

\* SplitStringTokens(input, delimiters) on a text without quotes and
\* backslashes: the non-empty trimmed runs between delimiters.
SplitStringTokens(input, delimiters) ==
    SplitRuns(TrimSpace(input), delimiters, FALSE, 1, <<>>, <<>>)

\* strings.Split(str, ".")
Split(str, sep) == SplitRuns(str, {sep}, TRUE, 1, <<>>, <<>>)

\* strconv.ParseUint(key, 10, 64): decimal digits only.
ParseUint(key) ==
    IF key = <<>> \/ \E i \in 1..Len(key) : ~IsDigit(key[i])
    THEN [val |-> 0, err |-> TRUE]
    ELSE [val |-> ParseDigits(key, 0), err |-> FALSE]

\* strconv.ParseInt(ks, 10, 64) returns no error: an optional sign and
\* decimal digits (the texts of the model are shorter than 19 digits).
IsInteger(ks) ==
    LET digits == IF ks # <<>> /\ Head(ks) \in {"+", "-"} THEN Tail(ks) ELSE ks
    IN digits # <<>> /\ \A i \in 1..Len(digits) : IsDigit(digits[i])

\* SplitJsonPath: the keys of one "."-separated part k are added to
\* expandedKeys.  An integer token is an array element and marks the key
\* before it as an array; the last key of the part is then marked as an
\* object unless it is an array or an array element.
RECURSIVE SplitJsonPathTokens(_, _, _)
SplitJsonPathTokens(expandedKeys, keyStrs, j) ==
    IF j > Len(keyStrs) THEN expandedKeys
    ELSE IF IsInteger(keyStrs[j])
    THEN SplitJsonPathTokens(
             Append(IF Len(expandedKeys) > 0
                    THEN [expandedKeys EXCEPT ![Len(expandedKeys)].IsArray = TRUE]
                    ELSE expandedKeys,
                    [Name |-> keyStrs[j], IsArray |-> FALSE, IsArrayElement |-> TRUE,
                     IsLast |-> FALSE, IsObject |-> FALSE]),
             keyStrs, j + 1)
    ELSE SplitJsonPathTokens(
             Append(expandedKeys,
                    [Name |-> keyStrs[j], IsArray |-> FALSE, IsArrayElement |-> FALSE,
                     IsLast |-> FALSE, IsObject |-> FALSE]),
             keyStrs, j + 1)

SplitJsonPathMarked(expandedKeys) ==
    IF Len(expandedKeys) > 0
       /\ ~expandedKeys[Len(expandedKeys)].IsArray
       /\ ~expandedKeys[Len(expandedKeys)].IsArrayElement
    THEN [expandedKeys EXCEPT ![Len(expandedKeys)].IsObject = TRUE]
    ELSE expandedKeys

RECURSIVE SplitJsonPathParts(_, _, _)
SplitJsonPathParts(expandedKeys, keys, index) ==
    IF index > Len(keys) THEN expandedKeys
    ELSE SplitJsonPathParts(
             SplitJsonPathMarked(
                 IF SplitStringTokens(keys[index], {"[", "]"}) # <<>>
                 THEN SplitJsonPathTokens(expandedKeys, SplitStringTokens(keys[index], {"[", "]"}), 1)
                 ELSE Append(expandedKeys,
                          [Name |-> keys[index], IsArray |-> FALSE, IsArrayElement |-> FALSE,
                           IsLast |-> FALSE, IsObject |-> FALSE])),
             keys, index + 1)

SplitJsonPathLast(expandedKeys) ==
    [expandedKeys EXCEPT ![Len(expandedKeys)].IsLast = TRUE]

SplitJsonPath(jsonPath) ==
    IF SplitStringTokens(jsonPath, {"."}) = <<>> THEN <<>>
    ELSE SplitJsonPathLast(SplitJsonPathParts(<<>>, SplitStringTokens(jsonPath, {"."}), 1))

\* v[key] = value on a map.
MapSet(m, key, value) ==
    [x \in (DOMAIN m) \cup {key} |-> IF x = key THEN value ELSE m[x]]

\* append(newArray, nil) until the index idx exists.
Grow(e, idx) == e \o [i \in 1..((idx + 1) - Len(e)) |-> Null]

\* make([]interface{}, 1) or make(map[string]interface{}) for a missing
\* intermediate.
Temp(k) == IF k.IsArray THEN A(<<Null>>) ELSE M(<<>>)

\* make([]*interface{}, 0): no case of the type switches matches it.
RootEntry == [t |-> "ptrs"]
JSON_OBJECT_ROOT_SYM == <<"$$">>

\* What a put returns: the node after the call, the error text or "nil".
PutReturn(node, err) == [node |-> node, err |-> err, panic |-> FALSE]
PutPanic(node) == [node |-> node, err |-> "nil", panic |-> TRUE]

\* The node with its child at key (a map) or idx (a slice) replaced by what
\* the rest of the loop made of it; the writes of an iteration reach the
\* parent through the shared map or backing array, or through the Noodle.
WithKey(node, key, r) == [r EXCEPT !.node = M(MapSet(node.m, key, r.node))]
WithIndex(e, idx, r) == [r EXCEPT !.node = A([e EXCEPT ![idx + 1] = r.node])]

\* The loop of PutJsonValue from key i on, node being node.Node.
RECURSIVE PutJsonNode(_, _, _, _)
PutJsonSlice(e, idx, keys, i, value) ==
    IF keys[i].IsLast THEN PutReturn(A([e EXCEPT ![idx + 1] = value]), "nil")
    ELSE WithIndex(e, idx,
             PutJsonNode(IF e[idx + 1] = Null THEN Temp(keys[i]) ELSE e[idx + 1],
                         keys, i + 1, value))

PutJsonNode(node, keys, i, value) ==
    IF i > Len(keys) THEN PutReturn(node, "nil")
    ELSE IF node.t = "map"
    THEN IF keys[i].IsLast THEN PutReturn(M(MapSet(node.m, keys[i].Name, value)), "nil")
         ELSE WithKey(node, keys[i].Name,
                  PutJsonNode(IF keys[i].Name \in DOMAIN node.m THEN node.m[keys[i].Name]
                              ELSE Temp(keys[i]),
                              keys, i + 1, value))
    ELSE IF node.t = "seq"
    THEN IF ParseUint(keys[i].Name).err THEN PutReturn(node, "BadIndexDSFmt")
         ELSE PutJsonSlice(IF ParseUint(keys[i].Name).val >= Len(node.e)
                           THEN Grow(node.e, ParseUint(keys[i].Name).val) ELSE node.e,
                           ParseUint(keys[i].Name).val, keys, i, value)
    ELSE PutJsonNode(node, keys, i + 1, value)

\* PutJsonValue(dest, jsonPath, value): dest afterwards and the error.
PutJsonValueKeys(dest, expandedKeys, value) ==
    IF expandedKeys[1].IsArrayElement
    THEN PutReturn(M(MapSet(dest.m, JSON_OBJECT_ROOT_SYM, RootEntry)), "nil")
    ELSE PutJsonNode(dest, expandedKeys, 1, value)

PutJsonValue(dest, jsonPath, value) ==
    PutJsonValueKeys(dest, SplitJsonPath(jsonPath), value)

\* What a get returns: the value, the error text or "nil", or a panic.
GetReturn(value, err) == [value |-> value, err |-> err, panic |-> FALSE]
GetPanic == [value |-> Null, err |-> "nil", panic |-> TRUE]

\* The loop of GetJsonValue and of resolveVariable from key i on: v[idx] is
\* read for every idx that is not greater than len(v).
RECURSIVE GetNode(_, _, _)
GetNode(node, keys, i) ==
    IF i > Len(keys) THEN GetReturn(node, "nil")
    ELSE IF node.t = "map"
    THEN IF keys[i].Name \notin DOMAIN node.m THEN GetReturn(X(<<>>), "MissingDSKeyFmt")
         ELSE GetNode(node.m[keys[i].Name], keys, i + 1)
    ELSE IF node.t = "seq"
    THEN IF ParseUint(keys[i].Name).err THEN GetReturn(X(<<>>), "BadIndexDSFmt")
         ELSE IF ParseUint(keys[i].Name).val > Len(node.e) THEN GetReturn(X(<<>>), "IndexExceedsDSFmt")
         ELSE IF ParseUint(keys[i].Name).val = Len(node.e) THEN GetPanic
         ELSE GetNode(node.e[ParseUint(keys[i].Name).val + 1], keys, i + 1)
    ELSE GetReturn(X(<<>>), "MissingDSKeyFmt")

GetJsonValueKeys(src, expandedKeys) ==
    IF expandedKeys[1].IsArrayElement
    THEN GetNode(IF JSON_OBJECT_ROOT_SYM \in DOMAIN src.m THEN src.m[JSON_OBJECT_ROOT_SYM] ELSE Null,
                 expandedKeys, 1)
    ELSE GetNode(src, expandedKeys, 1)

GetJsonValue(src, jsonPath) == GetJsonValueKeys(src, SplitJsonPath(jsonPath))

\* extractVariablePath on one "."-separated part k, from its i-th symbol on.
VariableKey(name, isArray) == [Name |-> name, IsArray |-> isArray, IsLast |-> FALSE]

RECURSIVE extractVariablePathScan(_, _, _, _, _)
extractVariablePathScan(k, i, hasIndex, index, expandedKeys) ==
    IF i > Len(k)
    THEN IF hasIndex THEN expandedKeys
         ELSE Append(expandedKeys, VariableKey(TrimSpace(k), FALSE))
    ELSE IF k[i] = "["
    THEN extractVariablePathScan(k, i + 1, TRUE, IF hasIndex THEN <<>> ELSE index,
             IF hasIndex THEN expandedKeys
             ELSE Append(expandedKeys, VariableKey(TrimSpace(SubSeq(k, 1, i - 1)), TRUE)))
    ELSE IF k[i] # "]" /\ hasIndex
    THEN extractVariablePathScan(k, i + 1, hasIndex, Append(index, k[i]), expandedKeys)
    ELSE IF k[i] = "]"
    THEN extractVariablePathScan(k, i + 1, hasIndex, index,
             Append(expandedKeys, VariableKey(TrimSpace(index), FALSE)))
    ELSE extractVariablePathScan(k, i + 1, hasIndex, index, expandedKeys)

RECURSIVE extractVariablePathParts(_, _, _)
extractVariablePathParts(keys, n, expandedKeys) ==
    IF n > Len(keys) THEN expandedKeys
    ELSE extractVariablePathParts(keys, n + 1,
             extractVariablePathScan(keys[n], 1, FALSE, <<>>, expandedKeys))

extractVariablePath(variableName) ==
    SplitJsonPathLast(extractVariablePathParts(Split(variableName, "."), 1, <<>>))

\* The loop of DataStore.PutVariable from key i on, node being node.Node;
\* inStore tells that node.Parent points at the DataStore itself.  A slice
\* is resized only when idx > len(v): with idx = len(v) the access v[idx]
\* panics, and the resize under the DataStore panics in the assertion
\* node.Parent.(*map[string]interface{}).
RECURSIVE PutVariableNode(_, _, _, _, _)
PutVariableSlice(e, idx, keys, i, value) ==
    IF idx >= Len(e) THEN PutPanic(A(e))
    ELSE IF keys[i].IsLast THEN PutReturn(A([e EXCEPT ![idx + 1] = value]), "nil")
    ELSE WithIndex(e, idx,
             PutVariableNode(IF e[idx + 1] = Null THEN Temp(keys[i]) ELSE e[idx + 1],
                             keys, i + 1, value, FALSE))

PutVariableNode(node, keys, i, value, inStore) ==
    IF i > Len(keys) THEN PutReturn(node, "nil")
    ELSE IF node.t = "map"
    THEN IF keys[i].IsLast THEN PutReturn(M(MapSet(node.m, keys[i].Name, value)), "nil")
         ELSE WithKey(node, keys[i].Name,
                  PutVariableNode(IF keys[i].Name \in DOMAIN node.m THEN node.m[keys[i].Name]
                                  ELSE Temp(keys[i]),
                                  keys, i + 1, value, i = 1))
    ELSE IF node.t = "seq"
    THEN IF ParseUint(keys[i].Name).err THEN PutReturn(node, "BadIndexDSFmt")
         ELSE IF ParseUint(keys[i].Name).val > Len(node.e) /\ inStore THEN PutPanic(node)
         ELSE PutVariableSlice(IF ParseUint(keys[i].Name).val > Len(node.e)
                               THEN Grow(node.e, ParseUint(keys[i].Name).val) ELSE node.e,
                               ParseUint(keys[i].Name).val, keys, i, value)
    ELSE PutVariableNode(node, keys, i + 1, value, FALSE)

\* DataStore.PutVariable(variable, value) on any path text: the store
\* afterwards and the error.
PutVariablePath(t, variable, value) ==
    PutVariableNode(t, extractVariablePath(variable), 1, value, FALSE)

VAR_PREFIX == <<"@", "{">>
VAR_SUFFIX == <<"}">>

\* DataStore.resolveVariable(variable), variable being "@{" path "}".
resolveVariablePath(t, variable) ==
    GetNode(t, extractVariablePath(SubSeq(variable, Len(VAR_PREFIX) + 1,
                                          Len(variable) - Len(VAR_SUFFIX))), 1)

----------------------------------------------------------------------------
(* Variable expansion: TokenStack.Parse and DataStore.ExpandVariable on    *)
(* texts given symbol by symbol                                            *)

\* strings.ReplaceAll(str, old, new) for a non-empty old.
RECURSIVE ReplaceAllWith(_, _, _)
ReplaceAllWith(str, old, new) ==
    IF str = <<>> THEN <<>>
    ELSE IF HasPrefix(str, old)
    THEN new \o ReplaceAllWith(SubSeq(str, Len(old) + 1, Len(str)), old, new)
    ELSE <<Head(str)>> \o ReplaceAllWith(Tail(str), old, new)

\* strings.Contains, strings.HasSuffix.
Contains(str, substr) ==
    \E i \in 0..(Len(str) - Len(substr)) : SubSeq(str, i + 1, i + Len(substr)) = substr

HasSuffix(str, suffix) ==
    Len(str) >= Len(suffix) /\ SubSeq(str, Len(str) - Len(suffix) + 1, Len(str)) = suffix

\* TokenStack.Parse from rune i (counted from 0) on.  st holds
\* escapeNextChar, curStackFrame (<<>> for nil), the frames of workStack,
\* and s.Frames and s.Extra.
RECURSIVE TokenStackParseFrom(_, _, _, _, _)
TokenStackParseFrom(input, prefix, suffix, i, st) ==
    IF i >= Len(input) THEN st
    ELSE IF input[i + 1] = "\\"
    THEN TokenStackParseFrom(input, prefix, suffix, i + 1, [st EXCEPT !.escapeNextChar = TRUE])
    ELSE IF st.escapeNextChar
    THEN TokenStackParseFrom(input, prefix, suffix, i + 1, [st EXCEPT !.escapeNextChar = FALSE])
    ELSE IF HasPrefix(SubSeq(input, i + 1, Len(input)), prefix)
    THEN TokenStackParseFrom(input, prefix, suffix, i + 1,
             [st EXCEPT !.workStack = IF st.curStackFrame # <<>> THEN Append(@, st.curStackFrame[1]) ELSE @,
                        !.curStackFrame =
                            <<[StartPos |-> i, EndPos |-> 0, Token |-> <<>>,
                               Nested |-> IF st.curStackFrame # <<>>
                                          THEN st.curStackFrame[1].Nested + 1 ELSE 0]>>])
    ELSE IF st.curStackFrame # <<>> /\ HasPrefix(SubSeq(input, i + 1, Len(input)), suffix)
    THEN TokenStackParseFrom(input, prefix, suffix, i + 1,
             [st EXCEPT !.Frames =
                            Append(@, [st.curStackFrame[1] EXCEPT
                                          !.EndPos = i + Len(suffix) - 1,
                                          !.Token = SubSeq(input, st.curStackFrame[1].StartPos + 1,
                                                           i + Len(suffix))]),
                        !.curStackFrame = IF st.workStack = <<>> THEN <<>>
                                          ELSE <<st.workStack[Len(st.workStack)]>>,
                        !.workStack = IF @ = <<>> THEN @ ELSE SubSeq(@, 1, Len(@) - 1)])
    ELSE IF st.curStackFrame = <<>>
    THEN TokenStackParseFrom(input, prefix, suffix, i + 1, [st EXCEPT !.Extra = Append(@, input[i + 1])])
    ELSE TokenStackParseFrom(input, prefix, suffix, i + 1, st)

\* A token stack that lists its frames from the outermost in.
TokenStackParseOutermostFirst(input, prefix, suffix) ==
    LET st == TokenStackParseFrom(input, prefix, suffix, 0,
                  [escapeNextChar |-> FALSE, curStackFrame |-> <<>>, workStack |-> <<>>,
                   Frames |-> <<>>, Extra |-> <<>>])
    IN [st EXCEPT !.Frames = [i \in 1..Len(@) |-> @[Len(@) + 1 - i]]]

\* (&TokenStack{}).Parse(input, prefix, suffix): Frames from the inner-most
\* nested out, and Extra.
TokenStackParse(input, prefix, suffix) ==
    TokenStackParseFrom(input, prefix, suffix, 0,
        [escapeNextChar |-> FALSE, curStackFrame |-> <<>>, workStack |-> <<>>,
         Frames |-> <<>>, Extra |-> <<>>])

isVar(input) == HasPrefix(input, VAR_PREFIX) /\ HasSuffix(input, VAR_SUFFIX)

\* varToString(variable) without a default: fmt.Sprintf("%v", variable),
\* "" for nil.  The text of a map or a slice is one symbol.
varToStringText(variable) ==
    CASE variable.t = "null" -> <<>>
      [] variable.t = "txt" -> variable.c
      [] variable.t = "int" -> FormatInt(variable.i)
      [] OTHER -> <<"%v">>

\* What ExpandVariable returns: the value, the error text or "nil"; or the
\* call panics.
ExpandReturn(value, err) == [value |-> value, err |-> err, panic |-> FALSE]
ExpandPanic == [value |-> Null, err |-> "nil", panic |-> TRUE]

\* The inner loop of ExpandVariable: the frames after the i-th whose
\* ResolvedVarName contains the token of v get the text of resolvedVar in
\* its place.  notString tells that a frame was met that contains the token
\* while resolvedVar is no string.
RECURSIVE ExpandCompose(_, _, _, _)
ExpandCompose(x, v, resolvedVar, offset) ==
    IF offset > Len(x.toResolve) THEN x
    ELSE IF ~Contains(x.toResolve[offset].ResolvedVarName, v.Token)
    THEN ExpandCompose(x, v, resolvedVar, offset + 1)
    ELSE IF resolvedVar.t # "txt" THEN [x EXCEPT !.notString = TRUE]
    ELSE ExpandCompose(
             [x EXCEPT !.toResolve[offset].ResolvedVarName =
                           ReplaceAllWith(@, v.Token, varToStringText(resolvedVar))],
             v, resolvedVar, offset + 1)

\* The loop of ExpandVariable from the i-th frame on; x holds toResolve,
\* outputString and result.
RECURSIVE ExpandFrom(_, _, _)
ExpandResolved(t, x, i, resolvedVar) ==
    ExpandFrom(t,
        ExpandCompose(
            IF x.toResolve[i].Nested # 0 THEN x
            ELSE IF x.outputString # <<>>
            THEN [x EXCEPT !.outputString =
                               ReplaceAllWith(@, x.toResolve[i].Token, varToStringText(resolvedVar))]
            ELSE [x EXCEPT !.result = resolvedVar],
            x.toResolve[i], resolvedVar, i + 1),
        i + 1)

ExpandLookedUp(t, x, i, r) ==
    IF r.panic THEN ExpandPanic
    ELSE IF r.err # "nil" THEN ExpandReturn(Null, r.err)
    ELSE ExpandResolved(t, x, i, r.value)

ExpandFrom(t, x, i) ==
    IF x.notString THEN ExpandReturn(Null, "NotAString")
    ELSE IF i > Len(x.toResolve)
    THEN ExpandReturn(IF x.outputString # <<>> THEN X(x.outputString) ELSE x.result, "nil")
    ELSE IF isVar(x.toResolve[i].ResolvedVarName)
    THEN ExpandLookedUp(t, x, i, resolveVariablePath(t, x.toResolve[i].ResolvedVarName))
    ELSE ExpandResolved(t, x, i, Null)

ExpandParsed(t, input, variables) ==
    IF Len(variables.Frames) = 0 THEN ExpandReturn(X(input), "nil")
    ELSE ExpandFrom(t,
             [toResolve |-> [n \in 1..Len(variables.Frames) |->
                                [Token |-> variables.Frames[n].Token,
                                 Nested |-> variables.Frames[n].Nested,
                                 ResolvedVarName |-> variables.Frames[n].Token]],
              outputString |-> IF variables.Extra # <<>> THEN input ELSE <<>>,
              result |-> Null,
              notString |-> FALSE],
             1)

\* DataStore.ExpandVariable(input) on any text.
ExpandVariableText(t, input) ==
    ExpandParsed(t, input, TokenStackParse(input, VAR_PREFIX, VAR_SUFFIX))

----------------------------------------------------------------------------
(* Subcommands: PromoteTokenQuotes, executeCommandStr, ExecuteCommand and  *)
(* the two passes of TestCase.GetResolvedTestInput over one text           *)

\* The three quotes; the backquote is spelled as a word.
IsQuote(char) == char \in {"\"", "'", "backquote"}

\* The end of the run of backslashes that begins at rs[i] (counted from 0).
RECURSIVE EscapeEnd(_, _)
EscapeEnd(rs, escapeEnd) ==
    IF escapeEnd < Len(rs) /\ rs[escapeEnd + 1] = "\\" THEN EscapeEnd(rs, escapeEnd + 1)
    ELSE escapeEnd

\* The backslashes that stay.
Backslashes(n) == [c \in 1..n |-> "\\"]

\* How many backslashes of a run of escapeCount a promoted token keeps, when
\* every run loses two.
KeptLosingTwo(escapeCount) == IF escapeCount <= 2 THEN 0 ELSE escapeCount - 2

\* How many backslashes of a run of escapeCount a promoted token keeps: a
\* single one goes, an even run loses one, an odd run loses two.
Kept(escapeCount) ==
    IF escapeCount = 1 THEN 0
    ELSE IF escapeCount % 2 = 0 THEN escapeCount - 1
    ELSE escapeCount - 2

\* The loop of PromoteTokenQuotes over the runes inside the quotes.
RECURSIVE PromoteRunes(_, _, _)
PromoteRunes(rs, i, newToken) ==
    IF i >= Len(rs) THEN newToken
    ELSE IF rs[i + 1] = "\\"
    THEN PromoteRunes(rs, EscapeEnd(rs, i + 1),
                      newToken \o Backslashes(Kept(EscapeEnd(rs, i + 1) - i)))
    ELSE PromoteRunes(rs, i + 1, Append(newToken, rs[i + 1]))

\* PromoteTokenQuotes on one token: a token with a quote at both ends loses
\* them and is promoted; rs[1 : len(rs)-1] panics on a token that is one
\* quote alone.
PromoteToken(token) ==
    IF ~(IsQuote(token[1]) /\ IsQuote(token[Len(token)]))
    THEN [token |-> token, panic |-> FALSE]
    ELSE IF Len(token) < 2 THEN [token |-> <<>>, panic |-> TRUE]
    ELSE [token |-> PromoteRunes(SubSeq(token, 2, Len(token) - 1), 0, <<>>), panic |-> FALSE]

PromoteTokenQuotes(tokens) ==
    [tokens |-> [n \in 1..Len(tokens) |-> PromoteToken(tokens[n]).token],
     panic |-> \E n \in 1..Len(tokens) : PromoteToken(tokens[n]).panic]

CMD_PREFIX == <<"$", "(">>
CMD_SUFFIX == <<")">>
CMD_DELIMITER == " "

\* The arguments joined by one space.
RECURSIVE JoinArgs(_, _)
JoinArgs(args, n) ==
    IF n > Len(args) THEN <<>>
    ELSE (IF n > 1 THEN <<" ">> ELSE <<>>) \o args[n] \o JoinArgs(args, n + 1)

\* The system the commands run on has echo (its arguments joined by a
\* space, and a newline), hostname (one word and a newline), true and
\* false; any other command line cannot be started.
\* cmd.ProcessState.ExitCode() after exec.Command(args[0], args[1:]...) ran:
\* -1 for a process that did not start.
ExitCode(args) ==
    IF args[1] \in {<<"echo">>, <<"true">>} THEN 0
    ELSE IF args[1] = <<"hostname">> /\ Len(args) = 1 THEN 0
    ELSE IF args[1] = <<"false">> THEN 1
    ELSE 0 - 1

\* exec.Command(args[0], args[1:]...).CombinedOutput()
CombinedOutput(args) ==
    [val |-> IF args[1] = <<"echo">> THEN JoinArgs(SubSeq(args, 2, Len(args)), 1) \o <<"\n">>
             ELSE IF args[1] = <<"hostname">> /\ Len(args) = 1 THEN <<"h", "\n">>
             ELSE <<>>,
     err |-> ExitCode(args) # 0]

\* strings.TrimSuffix(str, suffix)
TrimSuffix(str, suffix) ==
    IF Len(str) >= Len(suffix) /\ SubSeq(str, Len(str) - Len(suffix) + 1, Len(str)) = suffix
    THEN SubSeq(str, 1, Len(str) - Len(suffix)) ELSE str

\* executeCommandStr(input), input being "$(" ... ")": the output, the
\* error, and the argument list handed to exec.Command (<<>> for none).
executeCommandArgs(args) ==
    IF Len(args) = 0 THEN [out |-> <<>>, err |-> FALSE, ran |-> <<>>]
    ELSE [out |-> TrimSuffix(CombinedOutput(args).val, <<"\n">>),
          err |-> CombinedOutput(args).err, ran |-> <<args>>]

executeCommandStr(input) ==
    executeCommandArgs(
        PromoteTokenQuotes(
            SplitStringTokens(SubSeq(input, Len(CMD_PREFIX) + 1, Len(input) - Len(CMD_SUFFIX)),
                              {CMD_DELIMITER})).tokens)

isCmd(input) == HasPrefix(input, CMD_PREFIX) /\ HasSuffix(input, CMD_SUFFIX)

\* The inner loop of ExecuteCommand: the frames after the i-th whose
\* ExecuteCommandResult contains the token of v get commandOutput in its
\* place.
RECURSIVE CommandCompose(_, _, _, _)
CommandCompose(x, v, commandOutput, offset) ==
    IF offset > Len(x.toExecute) THEN x
    ELSE IF ~Contains(x.toExecute[offset].ExecuteCommandResult, v.Token)
    THEN CommandCompose(x, v, commandOutput, offset + 1)
    ELSE CommandCompose(
             [x EXCEPT !.toExecute[offset].ExecuteCommandResult =
                           ReplaceAllWith(@, v.Token, commandOutput)],
             v, commandOutput, offset + 1)

\* The loop of ExecuteCommand from the i-th frame on; x holds toExecute,
\* outputString and the argument lists run so far.
RECURSIVE CommandFrom(_, _)
CommandExecuted(x, i, r) ==
    IF r.err THEN [value |-> <<"Execution error">>, err |-> TRUE, ran |-> x.ran \o r.ran]
    ELSE CommandFrom(
             CommandCompose(
                 [x EXCEPT !.ran = @ \o r.ran,
                           !.outputString = IF x.toExecute[i].Nested = 0
                                            THEN ReplaceAllWith(@, x.toExecute[i].Token, r.out)
                                            ELSE @],
                 x.toExecute[i], r.out, i + 1),
             i + 1)

CommandFrom(x, i) ==
    IF i > Len(x.toExecute) THEN [value |-> x.outputString, err |-> FALSE, ran |-> x.ran]
    ELSE IF isCmd(x.toExecute[i].ExecuteCommandResult)
    THEN CommandExecuted(x, i, executeCommandStr(x.toExecute[i].ExecuteCommandResult))
    ELSE CommandExecuted(x, i, [out |-> <<>>, err |-> FALSE, ran |-> <<>>])

CommandParsed(input, commands) ==
    IF Len(commands.Frames) = 0 THEN [value |-> input, err |-> FALSE, ran |-> <<>>]
    ELSE CommandFrom(
             [toExecute |-> [n \in 1..Len(commands.Frames) |->
                                [Token |-> commands.Frames[n].Token,
                                 Nested |-> commands.Frames[n].Nested,
                                 ExecuteCommandResult |-> commands.Frames[n].Token]],
              outputString |-> input,
              ran |-> <<>>],
             1)

\* ExecuteCommand(input) on any text: the text returned, the error, and the
\* argument lists run, in order.
ExecuteCommandText(input) ==
    CommandParsed(input, TokenStackParse(input, CMD_PREFIX, CMD_SUFFIX))

\* The string case of DataStore.RecursiveResolveVariables: a text whose
\* expansion returns nil (a failed resolution too) is kept as it is, with
\* no error.
ResolveVariablesExpanded(input, res) ==
    IF res.panic THEN [node |-> Null, err |-> FALSE, panic |-> TRUE]
    ELSE IF res.value = Null THEN [node |-> X(input), err |-> FALSE, panic |-> FALSE]
    ELSE [node |-> res.value, err |-> res.err # "nil", panic |-> FALSE]

ResolveVariablesText(t, input) == ResolveVariablesExpanded(input, ExpandVariableText(t, input))

\* RecursiveExecuteCommand(input): a string is executed, any other value
\* is returned as it is.
ExecuteCommandNode(input) ==
    IF input.t = "txt" THEN ExecuteCommandText(input.c)
    ELSE [value |-> <<>>, err |-> FALSE, ran |-> <<>>]

\* TestCase.GetResolvedTestInput on an input that is one text: the node
\* and the error returned, and the argument lists run.
ResolvedTestInputExecuted(node, r) ==
    IF r.err THEN [node |-> Null, err |-> TRUE, ran |-> r.ran, panic |-> FALSE]
    ELSE [node |-> IF node.t = "txt" THEN X(r.value) ELSE node,
          err |-> FALSE, ran |-> r.ran, panic |-> FALSE]

ResolvedTestInputResolved(resolved) ==
    IF resolved.panic THEN [node |-> Null, err |-> FALSE, ran |-> <<>>, panic |-> TRUE]
    ELSE IF resolved.err THEN [node |-> Null, err |-> TRUE, ran |-> <<>>, panic |-> FALSE]
    ELSE ResolvedTestInputExecuted(resolved.node, ExecuteCommandNode(resolved.node))

GetResolvedTestInputText(t, input) == ResolvedTestInputResolved(ResolveVariablesText(t, input))

----------------------------------------------------------------------------
(* The Bool matcher (matcher-bool.go) and the external matcher             *)
(* (matcher-exec.go), on a store that is a tree                            *)

B(b) == [t |-> "bool", b |-> b]

\* fmt.Sprintf("%v", b)
FormatBool(b) == IF b THEN <<"true">> ELSE <<"false">>

\* strconv.ParseBool(str): the value, and whether it returned an error.
ParseBool(str) ==
    IF str \in {<<"1">>, <<"t">>, <<"T">>, <<"TRUE">>, <<"true">>, <<"True">>}
    THEN [res |-> TRUE, err |-> FALSE]
    ELSE IF str \in {<<"0">>, <<"f">>, <<"F">>, <<"FALSE">>, <<"false">>, <<"False">>}
    THEN [res |-> FALSE, err |-> FALSE]
    ELSE [res |-> FALSE, err |-> TRUE]

\* A Bool matcher: Value and Pattern are <<>> (nil) or hold one element.
BoolMatcher(value, pattern, dsName) ==
    [Type |-> "bool", Value |-> value, Pattern |-> pattern, DSName |-> dsName, ErrorStr |-> <<>>]

\* varToString(variable, def) on a tree value.
varToStringDef(variable, def) == IF variable.t = "null" THEN def ELSE varToStringText(variable)

\* The status of the Pattern branch once the pattern is resolved:
\* status = err != nil && result.
BoolPatternStatus(parsed, typedResponseValue) == parsed.err /\ (parsed.res = typedResponseValue)

\* BoolMatcher.Match from `var status bool` on; resolved is what
\* ExpandVariable made of the pattern.  The error of ParseBool is assigned
\* to the err of the Pattern branch, not to the one Match returns.
BoolMatchResolved(m, responseValue, resolved) ==
    IF m.Value # <<>>
    THEN MatchReturn(m.Value[1] = responseValue.b,
                     Capture(m, m.Value[1] = responseValue.b, responseValue), FALSE,
                     IF m.Value[1] = responseValue.b THEN FormatBool(responseValue.b)
                     ELSE <<"ValueErrFmt">> \o FormatBool(m.Value[1]) \o FormatBool(responseValue.b))
    ELSE IF m.Pattern = <<>>
    THEN MatchReturn(FALSE, EmptyStore, FALSE, <<>>)
    ELSE IF resolved.err # "nil"
    THEN MatchReturn(FALSE, EmptyStore, TRUE, <<>>)
    ELSE IF varToStringDef(resolved.value, m.Pattern[1]) = AnyText
    THEN MatchReturn(TRUE, Capture(m, TRUE, responseValue), FALSE, FormatBool(responseValue.b))
    ELSE MatchReturn(
             BoolPatternStatus(ParseBool(varToStringDef(resolved.value, m.Pattern[1])), responseValue.b),
             Capture(m, BoolPatternStatus(ParseBool(varToStringDef(resolved.value, m.Pattern[1])),
                                          responseValue.b),
                     responseValue),
             FALSE,
             IF BoolPatternStatus(ParseBool(varToStringDef(resolved.value, m.Pattern[1])), responseValue.b)
             THEN FormatBool(responseValue.b)
             ELSE IF ParseBool(varToStringDef(resolved.value, m.Pattern[1])).res # responseValue.b
             THEN <<"ValueErrFmt">>
                  \o FormatBool(ParseBool(varToStringDef(resolved.value, m.Pattern[1])).res)
                  \o FormatBool(responseValue.b)
             ELSE <<>>)

\* BoolMatcher.Match(responseValue, datastore)
BoolMatch(m, responseValue, datastore) ==
    IF responseValue.t # "bool"
    THEN MatchReturn(FALSE, EmptyStore, FALSE, <<"MismatchedMatcher", "bool">>)
    ELSE BoolMatchResolved(m, responseValue,
             IF m.Value = <<>> /\ m.Pattern # <<>> THEN ExpandVariableText(datastore, m.Pattern[1])
             ELSE ExpandReturn(Null, "nil"))

\* An external matcher: Cmd is <<>> ("") or the text of `cmd`; PrgmArgs is
\* Null (no `args`) or a sequence of texts; ReturnCode is <<>> (nil) or
\* holds the code of `returns`.
ExecutableMatcher(exists, dsName, cmd, binPath, prgmArgs, returnCode) ==
    [Type |-> "external", Exists |-> exists, DSName |-> dsName, Cmd |-> cmd, BinPath |-> binPath,
     PrgmArgs |-> prgmArgs, ReturnCode |-> returnCode, ErrorStr |-> <<>>]

\* What ExecutableMatcher.Match returns, the error text it leaves in the
\* matcher, and the store behind datastore afterwards.
ExecReturn(status, err, errorStr, ds) ==
    [status |-> status, store |-> EmptyStore, err |-> err, ErrorStr |-> errorStr, DS |-> ds,
     panic |-> FALSE]

ExecPanic(ds) ==
    [status |-> FALSE, store |-> EmptyStore, err |-> FALSE, ErrorStr |-> <<>>, DS |-> ds,
     panic |-> TRUE]

\* The text of an argument: a string as it is, any other value as its JSON.
ArgString(node) == IF node.t = "txt" THEN node.c ELSE varToStringText(node)

\* The bin branch once the program has run with exit code `code` and
\* combined output `output`.  Its status is a variable of the branch: the
\* status Match returns stays false.
ExecBinRan(m, ds, code, output) ==
    ExecReturn(FALSE, FALSE,
               IF m.ReturnCode # <<>> /\ m.ReturnCode[1] # code /\ output.err
               THEN <<"[", "err", "]", "\n", " ">> \o output.val
               ELSE output.val,
               ds)

ExecBinArgs(m, ds, binPath, args) ==
    ExecBinRan(m, ds, ExitCode(<<binPath>> \o args), CombinedOutput(<<binPath>> \o args))

\* The bin branch from the resolution of the arguments on.
ExecBinResolved(m, ds, resolvedBinPath) ==
    IF m.PrgmArgs = Null
    THEN ExecReturn(FALSE, FALSE, <<"MismatchedMatcher", "array">>, ds)
    ELSE IF \E n \in 1..Len(m.PrgmArgs.e) : ResolveVariablesText(ds, m.PrgmArgs.e[n].c).panic
    THEN ExecPanic(ds)
    ELSE IF resolvedBinPath.t # "txt" THEN ExecPanic(ds)
    ELSE ExecBinArgs(m, ds, resolvedBinPath.c,
             [n \in 1..Len(m.PrgmArgs.e) |->
                 ArgString(ResolveVariablesText(ds, m.PrgmArgs.e[n].c).node)])

ExecBin(m, ds, resolved) ==
    IF resolved.panic THEN ExecPanic(ds)
    ELSE IF resolved.err # "nil" THEN ExecReturn(FALSE, TRUE, <<>>, ds)
    ELSE ExecBinResolved(m, ds, resolved.value)

\* The cmd branch once ExecuteCommand has returned.
ExecCmdRan(ds, r) ==
    IF r.err THEN ExecReturn(FALSE, FALSE, <<"[", "err", "]", "\n", " ">> \o r.value, ds)
    ELSE ExecReturn(TRUE, FALSE,
                    IF TrimSpace(r.value) = <<>> THEN <<"[status 0]">> ELSE TrimSpace(r.value), ds)

ExecCmd(m, ds, resolved) ==
    IF resolved.panic THEN ExecPanic(ds)
    ELSE IF resolved.err # "nil" THEN ExecReturn(FALSE, TRUE, <<>>, ds)
    ELSE IF resolved.value.t # "txt" THEN ExecPanic(ds)
    ELSE ExecCmdRan(ds, ExecuteCommandText(resolved.value.c))

\* ExecutableMatcher.Match once the response value is in the store.
ExecStored(m, ds) ==
    IF m.Cmd = <<>> THEN ExecBin(m, ds, ExpandVariableText(ds, m.BinPath))
    ELSE ExecCmd(m, ds, ExpandVariableText(ds, m.Cmd))

ExecPut(m, datastore, put) ==
    IF put.panic THEN ExecPanic(put.node)
    ELSE IF put.err # "nil" THEN ExecReturn(FALSE, TRUE, <<>>, put.node)
    ELSE ExecStored(m, put.node)

\* ExecutableMatcher.Match(responseValue, datastore): the response value
\* is put under DSName into the store behind datastore before the program
\* is run.
ExecutableMatch(m, responseValue, datastore) ==
    IF IsNil(responseValue) /\ m.Exists
    THEN ExecReturn(FALSE, FALSE, <<"ReceivedNullErrFmt">>, datastore)
    ELSE IF IsNil(responseValue) /\ ~m.Exists
    THEN ExecReturn(TRUE, FALSE, <<"ExpectedNullSuccessFmt">>, datastore)
    ELSE IF ~m.Exists
    THEN ExecReturn(FALSE, FALSE, <<"ExpectedNullErrFmt">>, datastore)
    ELSE IF m.DSName # <<>>
    THEN ExecPut(m, datastore,
                 PutVariablePath(datastore, m.DSName, X(varToStringText(responseValue))))
    ELSE ExecStored(m, datastore)

----------------------------------------------------------------------------
(* Calls on a keyed store: a put, a get, or a put and the get that follows *)

MaxStoreIndex == 2
MaxStoreLen == 2

\* A path as its writer means it: fields and indices.
Fld(name) == [kind |-> "fld", name |-> name]
Idx(n) == [kind |-> "idx", index |-> n]

\* The text of a path: a.b[2].c
RECURSIVE PathText(_, _)
PathText(segs, i) ==
    IF i > Len(segs) THEN <<>>
    ELSE (IF segs[i].kind = "idx" THEN <<"[">> \o FormatInt(segs[i].index) \o <<"]">>
          ELSE IF i = 1 THEN segs[i].name
          ELSE <<".">> \o segs[i].name)
         \o PathText(segs, i + 1)

StorePaths ==
    {<<Fld(<<"a">>)>>, <<Fld(<<"a">>), Fld(<<"b">>)>>, <<Fld(<<"b">>), Fld(<<"a">>)>>, <<Idx(0)>>}
    \cup {<<Fld(<<"a">>), Idx(n)>> : n \in 0..MaxStoreIndex}
    \cup {<<Fld(<<"a">>), Idx(n), Fld(<<"b">>)>> : n \in 0..MaxStoreIndex}
    \cup {<<Fld(<<"a">>), Fld(<<"b">>), Idx(n)>> : n \in 0..MaxStoreIndex}
    \cup {<<Fld(<<"a">>), Idx(0), Idx(n)>> : n \in 0..MaxStoreIndex}

\* The stores: empty, or a holding a text, a null, a map, or a sequence.
StoreValues ==
    {M(<<>>),
     M(<<"a">> :> X(<<"x">>)),
     M(<<"a">> :> Null),
     M(<<"a">> :> M(<<"b">> :> I(1))),
     M(<<"a">> :> M(<<"b">> :> A(<<I(1)>>)))}
    \cup {M(<<"a">> :> A([i \in 1..n |-> I(i)])) : n \in 0..MaxStoreLen}

StoredValue == X(<<"v">>)

StoreInit ==
    /\ \E impl \in {"json", "variable"}, st \in StoreValues, segs \in StorePaths :
           call = [fn |-> "store", impl |-> impl, store |-> st, segs |-> segs,
                   path |-> PathText(segs, 1), value |-> StoredValue]
    /\ ret = <<>>
    /\ WsIdle
    /\ MatchIdle
    /\ SuiteIdle
    /\ MultiIdle

\* The store a get works on: the given one, or the one the put left.
CurrentStore == IF ret = <<>> THEN call.store ELSE ret[1].r.node

\* PutJsonValue(store, path, value)
CallPutJsonValue ==
    /\ call.fn = "store" /\ call.impl = "json"
    /\ ret = <<>>
    /\ ret' = <<[op |-> "put", r |-> PutJsonValue(call.store, call.path, call.value)]>>
    /\ UNCHANGED <<call, matchVars, GlobalDataStore, suiteVars, multiVars, wsVars>>

\* store.PutVariable(path, value)
CallPutVariable ==
    /\ call.fn = "store" /\ call.impl = "variable"
    /\ ret = <<>>
    /\ ret' = <<[op |-> "put", r |-> PutVariablePath(call.store, call.path, call.value)]>>
    /\ UNCHANGED <<call, matchVars, GlobalDataStore, suiteVars, multiVars, wsVars>>

\* GetJsonValue(store, path), first or after the put
CallGetJsonValue ==
    /\ call.fn = "store" /\ call.impl = "json"
    /\ ret = <<>> \/ (Len(ret) = 1 /\ ret[1].op = "put" /\ ~ret[1].r.panic)
    /\ ret' = Append(ret, [op |-> "get", r |-> GetJsonValue(CurrentStore, call.path)])
    /\ UNCHANGED <<call, matchVars, GlobalDataStore, suiteVars, multiVars, wsVars>>

\* store.resolveVariable("@{" path "}"), first or after the put
CallResolveVariable ==
    /\ call.fn = "store" /\ call.impl = "variable"
    /\ ret = <<>> \/ (Len(ret) = 1 /\ ret[1].op = "put" /\ ~ret[1].r.panic)
    /\ ret' = Append(ret, [op |-> "get",
                           r |-> resolveVariablePath(CurrentStore, VAR_PREFIX \o call.path \o VAR_SUFFIX)])
    /\ UNCHANGED <<call, matchVars, GlobalDataStore, suiteVars, multiVars, wsVars>>

StoreNext ==
    \/ CallPutJsonValue
    \/ CallPutVariable
    \/ CallGetJsonValue
    \/ CallResolveVariable

StoreSpec == StoreInit /\ [][StoreNext]_vars

----------------------------------------------------------------------------
(* Calls of ExpandVariable on one store                                    *)

MaxPieces == 2

\* The store: fixtures, an integer, a variable that holds a reference to
\* itself, and two that hold references to each other.
ExpandStore ==
    M(<<"Hosts">> :> M(<<"Beta">> :> X(<<"http://x">>))
      @@ <<"STAGE">> :> X(<<"Beta">>)
      @@ <<"N">> :> I(5)
      @@ <<"Y">> :> M(<<"k">> :> X(<<"Beta">>))
      @@ <<"Z">> :> X(<<"k">>)
      @@ <<"A">> :> X(<<"@", "{", "A", "}">>)
      @@ <<"P">> :> X(<<"@", "{", "Q", "}">>)
      @@ <<"Q">> :> X(<<"@", "{", "P", "}">>))

\* An input as its writer means it: literal text and variables, the name
\* of a variable being made of plain parts and of variables.
Lit(text) == [k |-> "lit", text |-> text]
Part(n) == [k |-> "name", n |-> n]
Term(parts) == [k |-> "term", parts |-> parts]

Terms ==
    {Term(<<Part("STAGE")>>),
     Term(<<Part("N")>>),
     Term(<<Part("Hosts"), Part("Beta")>>),
     Term(<<Part("Hosts"), Term(<<Part("STAGE")>>)>>),
     Term(<<Part("Y"), Term(<<Part("Z")>>)>>),
     Term(<<Part("Hosts"), Term(<<Part("Y"), Term(<<Part("Z")>>)>>)>>),
     Term(<<Part("Hosts"), Term(<<Part("N")>>)>>),
     Term(<<Part("A")>>),
     Term(<<Part("P")>>),
     Term(<<Part("missing")>>)}

Pieces == Terms \cup {Lit(<<"/foo">>)}

\* The text of a variable, @{a.b}, and of an input.
RECURSIVE TermText(_)
RECURSIVE PartsText(_, _)
TermText(term) == VAR_PREFIX \o PartsText(term.parts, 1) \o VAR_SUFFIX

PartsText(parts, i) ==
    IF i > Len(parts) THEN <<>>
    ELSE (IF i > 1 THEN <<".">> ELSE <<>>)
         \o (IF parts[i].k = "name" THEN <<parts[i].n>> ELSE TermText(parts[i]))
         \o PartsText(parts, i + 1)

RECURSIVE PiecesText(_, _)
PiecesText(pieces, i) ==
    IF i > Len(pieces) THEN <<>>
    ELSE (IF pieces[i].k = "lit" THEN pieces[i].text ELSE TermText(pieces[i]))
         \o PiecesText(pieces, i + 1)

ExpandInit ==
    /\ \E n \in 1..MaxPieces : \E pieces \in [1..n -> Pieces] :
           call = [fn |-> "ExpandVariable", pieces |-> pieces, input |-> PiecesText(pieces, 1)]
    /\ ret = <<>>
    /\ WsIdle
    /\ MatchIdle
    /\ SuiteIdle
    /\ MultiIdle

\* store.ExpandVariable(input)
CallExpandVariable ==
    /\ call.fn = "ExpandVariable"
    /\ ret = <<>>
    /\ ret' = <<ExpandVariableText(ExpandStore, call.input)>>
    /\ UNCHANGED <<call, matchVars, GlobalDataStore, suiteVars, multiVars, wsVars>>

ExpandNext == CallExpandVariable

ExpandSpec == ExpandInit /\ [][ExpandNext]_vars

----------------------------------------------------------------------------
(* Calls of ExecuteCommand and of GetResolvedTestInput on one text          *)

MaxNesting == 2

\* A subcommand as its writer means it: a program and its arguments, an
\* argument being a word, a variable or a subcommand.
Command(args) == [k |-> "cmd", args |-> args]

CommandWords ==
    {Lit(<<"first">>), Lit(<<"second">>),
     Term(<<Part("STAGE")>>), Term(<<Part("missing")>>)}

RECURSIVE Commands(_)
Commands(nesting) ==
    IF nesting = 0
    THEN {Command(<<Lit(<<"hostname">>)>>), Command(<<Lit(<<"nope">>)>>)}
         \cup {Command(<<Lit(<<"echo">>), w>>) : w \in CommandWords}
    ELSE Commands(nesting - 1)
         \cup {Command(<<Lit(<<"echo">>), c>>) : c \in Commands(nesting - 1)}
         \cup {Command(<<Lit(<<"echo">>), c, d>>) : c \in Commands(nesting - 1), d \in Commands(0)}

\* The text of a subcommand, $(echo first @{STAGE} $(hostname)).
RECURSIVE CommandText(_)
RECURSIVE ArgsText(_, _)
CommandText(cmd) == CMD_PREFIX \o ArgsText(cmd.args, 1) \o CMD_SUFFIX

ArgsText(args, i) ==
    IF i > Len(args) THEN <<>>
    ELSE (IF i > 1 THEN <<CMD_DELIMITER>> ELSE <<>>)
         \o (CASE args[i].k = "lit" -> args[i].text
               [] args[i].k = "term" -> TermText(args[i])
               [] OTHER -> CommandText(args[i]))
         \o ArgsText(args, i + 1)

CommandInit ==
    /\ \E fn \in {"ExecuteCommand", "GetResolvedTestInput"} :
       \E cmd \in Commands(MaxNesting) :
           call = [fn |-> fn, cmd |-> cmd, input |-> CommandText(cmd)]
    /\ ret = <<>>
    /\ WsIdle
    /\ MatchIdle
    /\ SuiteIdle
    /\ MultiIdle

\* ExecuteCommand(input)
CallExecuteCommand ==
    /\ call.fn = "ExecuteCommand"
    /\ ret = <<>>
    /\ ret' = <<ExecuteCommandText(call.input)>>
    /\ UNCHANGED <<call, matchVars, GlobalDataStore, suiteVars, multiVars, wsVars>>

\* test.GetResolvedTestInput(), the case's input being the text and its
\* store ExpandStore
CallGetResolvedTestInput ==
    /\ call.fn = "GetResolvedTestInput"
    /\ ret = <<>>
    /\ ret' = <<GetResolvedTestInputText(ExpandStore, call.input)>>
    /\ UNCHANGED <<call, matchVars, GlobalDataStore, suiteVars, multiVars, wsVars>>

CommandNext == CallExecuteCommand \/ CallGetResolvedTestInput

CommandSpec == CommandInit /\ [][CommandNext]_vars

----------------------------------------------------------------------------
(* Calls of BoolMatcher.Match and of ExecutableMatcher.Match               *)

BoolLiterals == {<<"true">>, <<"false">>, <<"True">>, <<"FALSE">>, <<"1">>, <<"0">>, <<"t">>, <<"F">>}

BoolMatchers ==
    {BoolMatcher(<<b>>, <<>>, dsName) : b \in BOOLEAN, dsName \in {"", "flag"}}
    \cup {BoolMatcher(<<>>, <<pattern>>, dsName) :
              pattern \in BoolLiterals \cup {AnyText, <<"yes">>, TermText(Term(<<Part("STAGE")>>)),
                                             TermText(Term(<<Part("missing")>>))},
              dsName \in {"", "flag"}}
    \cup {BoolMatcher(<<>>, <<>>, "")}

BoolResponses == {B(TRUE), B(FALSE), Null, I(1), X(<<"true">>)}

ExecutableMatchers ==
    {ExecutableMatcher(exists, dsName, <<>>, binPath, prgmArgs, returnCode) :
         exists \in BOOLEAN, dsName \in {<<>>, <<"saved">>, <<"STAGE">>},
         binPath \in {<<"true">>, <<"false">>, <<"echo">>, <<"nope">>},
         prgmArgs \in {Null, A(<<>>), A(<<X(<<"@", "{", "saved", "}">>)>>)},
         returnCode \in {<<>>, <<0>>, <<1>>}}
    \cup {ExecutableMatcher(TRUE, dsName, cmd, <<>>, Null, <<>>) :
              dsName \in {<<>>, <<"saved">>},
              cmd \in {CommandText(c) : c \in Commands(0)}}

ExecResponses == {X(<<"/tmp/f">>), I(5), Null}

MatcherInit ==
    /\ \/ \E m \in BoolMatchers, responseValue \in BoolResponses :
              call = [fn |-> "BoolMatcher.Match", m |-> m, responseValue |-> responseValue,
                      datastore |-> ExpandStore]
       \/ \E m \in ExecutableMatchers, responseValue \in ExecResponses :
              call = [fn |-> "ExecutableMatcher.Match", m |-> m, responseValue |-> responseValue,
                      datastore |-> ExpandStore]
    /\ ret = <<>>
    /\ WsIdle
    /\ MatchIdle
    /\ SuiteIdle
    /\ MultiIdle

\* m.Match(responseValue, &datastore) on a Bool matcher
CallBoolMatch ==
    /\ call.fn = "BoolMatcher.Match"
    /\ ret = <<>>
    /\ ret' = <<BoolMatch(call.m, call.responseValue, call.datastore)>>
    /\ UNCHANGED <<call, matchVars, GlobalDataStore, suiteVars, multiVars, wsVars>>

\* m.Match(responseValue, &datastore) on an external matcher
CallExecutableMatch ==
    /\ call.fn = "ExecutableMatcher.Match"
    /\ ret = <<>>
    /\ ret' = <<ExecutableMatch(call.m, call.responseValue, call.datastore)>>
    /\ UNCHANGED <<call, matchVars, GlobalDataStore, suiteVars, multiVars, wsVars>>

MatcherNext == CallBoolMatch \/ CallExecutableMatch

MatcherSpec == MatcherInit /\ [][MatcherNext]_vars

----------------------------------------------------------------------------
(* Calls of PromoteTokenQuotes on one token                                *)

MaxEscapes == 4
MaxSegments == 3

\* A token as its writer means it: characters and runs of backslashes, two
\* runs never side by side; `open` and `close` are its first and last
\* character when it is quoted, <<>> otherwise.
Char(c) == [k |-> "char", c |-> c]
Escapes(n) == [k |-> "run", n |-> n]

Segments == {Char("a"), Char("\""), Char("'")} \cup {Escapes(n) : n \in 1..MaxEscapes}

Bodies ==
    UNION {{body \in [1..n -> Segments] :
                \A i \in 1..(n - 1) : ~(body[i].k = "run" /\ body[i + 1].k = "run")} :
           n \in 0..MaxSegments}

RECURSIVE BodyText(_, _)
BodyText(body, i) ==
    IF i > Len(body) THEN <<>>
    ELSE (IF body[i].k = "char" THEN <<body[i].c>> ELSE Backslashes(body[i].n))
         \o BodyText(body, i + 1)

Quotes == {"\"", "'", "backquote"}

PromoteInit ==
    /\ \/ \E open \in Quotes, close \in Quotes, body \in Bodies :
              call = [fn |-> "PromoteTokenQuotes", quoted |-> TRUE, body |-> body,
                      tokens |-> <<<<open>> \o BodyText(body, 1) \o <<close>>>>]
       \/ \E body \in Bodies :
              call = [fn |-> "PromoteTokenQuotes", quoted |-> FALSE, body |-> body,
                      tokens |-> <<<<"a">> \o BodyText(body, 1) \o <<"a">>>>]
       \/ \E open \in Quotes :
              call = [fn |-> "PromoteTokenQuotes", quoted |-> FALSE, body |-> <<>>,
                      tokens |-> <<<<open>>>>]
    /\ ret = <<>>
    /\ WsIdle
    /\ MatchIdle
    /\ SuiteIdle
    /\ MultiIdle

\* PromoteTokenQuotes(tokens)
CallPromoteTokenQuotes ==
    /\ call.fn = "PromoteTokenQuotes"
    /\ ret = <<>>
    /\ ret' = <<PromoteTokenQuotes(call.tokens)>>
    /\ UNCHANGED <<call, matchVars, GlobalDataStore, suiteVars, multiVars, wsVars>>

PromoteNext == CallPromoteTokenQuotes

PromoteSpec == PromoteInit /\ [][PromoteNext]_vars

----------------------------------------------------------------------------
(* Resolving an input that refers to a captured value                      *)

\* What an earlier case has captured from a response under the name
\* `captured`: a plain word, or a text that reads as a subcommand.
CapturedValues ==
    {X(<<"Beta">>),
     X(CMD_PREFIX \o <<"echo", " ", "pwned">> \o CMD_SUFFIX),
     X(CMD_PREFIX \o <<"hostname">> \o CMD_SUFFIX),
     X(CMD_PREFIX \o <<"nope">> \o CMD_SUFFIX)}

CapturedStore(value) == M(<<"captured">> :> value @@ <<"STAGE">> :> X(<<"Beta">>))

\* The subcommand a writer puts into an input, and the pieces of an input:
\* words, that subcommand, and references to the two variables.
WrittenCommand == CMD_PREFIX \o <<"hostname">> \o CMD_SUFFIX

InputPieces ==
    {Lit(<<"id=">>), Lit(WrittenCommand),
     Term(<<Part("captured")>>), Term(<<Part("STAGE")>>)}

CapturedInit ==
    /\ \E value \in CapturedValues : \E n \in 1..MaxPieces : \E pieces \in [1..n -> InputPieces] :
           call = [fn |-> "GetResolvedTestInput", store |-> CapturedStore(value),
                   pieces |-> pieces, input |-> PiecesText(pieces, 1)]
    /\ ret = <<>>
    /\ WsIdle
    /\ MatchIdle
    /\ SuiteIdle
    /\ MultiIdle

\* test.GetResolvedTestInput(), the case's input being the text and its
\* store the one with the captured value
CallGetResolvedTestInputOn ==
    /\ call.fn = "GetResolvedTestInput"
    /\ ret = <<>>
    /\ ret' = <<GetResolvedTestInputText(call.store, call.input)>>
    /\ UNCHANGED <<call, matchVars, GlobalDataStore, suiteVars, multiVars, wsVars>>

CapturedNext == CallGetResolvedTestInputOn

CapturedSpec == CapturedInit /\ [][CapturedNext]_vars

----------------------------------------------------------------------------
(* Calls of the token stack on a text (TokenStack.Parse)                   *)

MaxInput == 6

\* The delimiters of variables and of subcommands, and a pair of one
\* symbol each.
Delimiters ==
    {[prefix |-> VAR_PREFIX, suffix |-> VAR_SUFFIX],
     [prefix |-> CMD_PREFIX, suffix |-> CMD_SUFFIX],
     [prefix |-> <<"<">>, suffix |-> <<">">>]}

\* The symbols of the delimiters, the backslash and a letter.
Alphabet(d) ==
    {d.prefix[i] : i \in 1..Len(d.prefix)} \cup {d.suffix[i] : i \in 1..Len(d.suffix)}
        \cup {"\\", "a"}

TokenInit ==
    /\ \E d \in Delimiters : \E n \in 0..MaxInput : \E input \in [1..n -> Alphabet(d)] :
          call = [fn |-> "Parse", input |-> input, prefix |-> d.prefix, suffix |-> d.suffix]
    /\ ret = <<>>
    /\ WsIdle
    /\ MatchIdle
    /\ SuiteIdle
    /\ MultiIdle

\* (&TokenStack{}).Parse(input, prefix, suffix)
CallParse ==
    /\ call.fn = "Parse"
    /\ ret = <<>>
    /\ ret' = <<TokenStackParse(call.input, call.prefix, call.suffix)>>
    /\ UNCHANGED <<call, matchVars, GlobalDataStore, suiteVars, multiVars, wsVars>>

TokenNext == CallParse

TokenSpec == TokenInit /\ [][TokenNext]_vars

----------------------------------------------------------------------------
(* A stepped websocket case: StepExecWebsocket is called once per request  *)
(* of the case, every call on the case's one ResponseMatcher               *)
(* (test-case.go)                                                          *)

MaxSteps == 2

\* A case whose payload is one array `items` that must not be empty.
ItemsDef == FieldDef("array", S(NotEmpty), DEFAULT_PRIORITY, "", TRUE, <<>>, <<>>)

\* A response whose first element holds the text a@b as its alias, not as
\* its email.
AliasElement == M([alias |-> S("a@b"), email |-> S("x@y"), id |-> I(1)])
AliasResponse == M([data |-> A(<<AliasElement, Element("a@b", 42)>>)])

StepCaseCfg(input, payload) ==
    [Skip |-> FALSE, ExitOnRun |-> FALSE, Input |-> M([user |-> input]),
     Response |-> [StatusCode |-> Null, Payload |-> payload, Headers |-> <<>>]]

\* The stepped cases, each with the responses its steps can receive: the
\* items case, the README's data storage case, the case with a nested
\* object, and a case whose input is a subcommand that fails.
StepCases ==
    {[test |-> StepCaseCfg(S("lit"), <<<<"items", ItemsDef>>>>),
      responses |-> {M([items |-> S("text")]), M([items |-> A(<<>>)]), M([items |-> A(<<I(1)>>)])}],
     [test |-> StepCaseCfg(S("lit"),
                  <<<<"data", DataDef(<<<<"email", EmailDef(0, "a@b")>>, <<"id", IdDef(1)>>>>)>>>>),
      responses |-> {E3Response, AliasResponse, M([data |-> A(<<Element("a@b", 7)>>)]),
                     M([data |-> A(<<Element("x@y", 7)>>)]), Null}],
     [test |-> StepCaseCfg(S("lit"),
                  <<<<"data", DataDef(<<<<"id", IdDef(DEFAULT_PRIORITY)>>, <<"owner", OwnerDef>>>>)>>>>),
      responses |-> {OwnedResponse, M([data |-> A(<<OwnedElement(7, "a@b")>>)])}],
     [test |-> StepCaseCfg(Cmd(1, ""), <<<<"items", ItemsDef>>>>),
      responses |-> {M([items |-> A(<<I(1)>>)])}]}

\* What the connection does with each request of the case: the exchange
\* fails, or a response is read.
StepWires(responses) ==
    [1..MaxSteps -> {[fail |-> TRUE, Response |-> Null]}
                    \cup {[fail |-> FALSE, Response |-> r] : r \in responses}]

StepInit ==
    /\ \E c \in StepCases : \E w \in StepWires(c.responses) :
          /\ case = LoadConfig(c.test)
          /\ call = [fn |-> "StepExecWebsocket", wire |-> w]
    /\ result = [StatusCode |-> 0, Response |-> Null, ResponseHeaders |-> Null]
    /\ match = IdleMatch
    /\ pc = "step"
    /\ outcome = NoOutcome
    /\ evalLog = <<>>
    /\ ret = <<>>
    /\ SuiteIdle
    /\ MultiIdle
    /\ WsIdle

\* What one StepExecWebsocket call returned, with the response it matched.
StepReturn(passed, fields, err, response) ==
    [passed |-> passed, Fields |-> fields, err |-> err, Response |-> response]

\* StepExecWebsocket(step, result) up to the call of Match: an input that
\* does not resolve and an exchange that fails are returned as errors;
\* otherwise the response is in result.Response and Match has begun.
StepExecWebsocket ==
    /\ pc = "step"
    /\ Len(ret) < MaxSteps
    /\ LET w == call.wire[Len(ret) + 1]
           input == GetResolvedTestInput(GlobalDataStore, case.Config.Input)
       IN /\ case' = [case EXCEPT !.Config.Input = input.left]
          /\ IF input.err \/ w.fail
             THEN /\ ret' = Append(ret, StepReturn(FALSE, <<>>, TRUE, Null))
                  /\ UNCHANGED <<result, match, pc>>
             ELSE /\ result' = [result EXCEPT !.Response = w.Response]
                  /\ match' = MatchBegin(case.ResponseMatcher, w.Response)
                  /\ pc' = "payload"
                  /\ UNCHANGED ret
    /\ UNCHANGED <<call, outcome, evalLog, GlobalDataStore, suiteVars, multiVars, wsVars>>

\* Match has returned: its status, field results and error are the step's.
\* The matcher list and the node cache stay on the case's ResponseMatcher.
StepMatched ==
    /\ pc = "payload"
    /\ match.phase = "returned"
    /\ case' = [case EXCEPT !.ResponseMatcher = AfterMatch(match)]
    /\ ret' = Append(ret, StepReturn(match.aggregatedStatus, match.results, match.err,
                                     result.Response))
    /\ match' = IdleMatch
    /\ pc' = "step"
    /\ UNCHANGED <<call, result, outcome, evalLog, GlobalDataStore, suiteVars, multiVars, wsVars>>

StepNext ==
    \/ StepExecWebsocket
    \/ MatchConfigStep
    \/ StepMatched

StepSpec == StepInit /\ [][StepNext]_vars

----------------------------------------------------------------------------
(* Properties of the validation of one case                                *)

\* The names of a key sequence.
Names(keys) == [i \in 1..Len(keys) |-> keys[i].Name]

RECURSIVE NodeAt(_, _, _)
\* The node under `node` that the keys from the i-th on name, each taken
\* as an object field.
NodeAt(node, keys, i) ==
    IF i > Len(keys) THEN node
    ELSE IF node.t = "map" /\ keys[i].Name \in DOMAIN node.m
    THEN NodeAt(node.m[keys[i].Name], keys, i + 1)
    ELSE Null

\* The case defines the capture uid (every case of Cases does).
Captures == \E i \in 1..Len(case.ResponseMatcher.Config) :
                case.ResponseMatcher.Config[i].Matcher.DSName = "uid"

\* C1: after the case has been validated, the capture uid is in the suite
\* store if and only if the case passed, i.e. every status code, payload and
\* header matcher succeeded.
C1_CaptureIffPassed ==
    (pc = "done" /\ Captures) => (("uid" \in DOMAIN GlobalDataStore) <=> outcome.passed)

\* C2: within one Match call, a matcher is never evaluated after a matcher
\* it should precede: one with a greater priority number, or with the same
\* priority and more keys in its path.
C2_EvaluatedInPriorityOrder ==
    \A i, j \in 1..Len(evalLog) :
        (i < j /\ evalLog[i].list = evalLog[j].list)
            => ~(\/ evalLog[j].Priority < evalLog[i].Priority
                 \/ /\ evalLog[j].Priority = evalLog[i].Priority
                    /\ Len(evalLog[j].Keys) < Len(evalLog[i].Keys))

\* C3: once a matcher has selected an element of an unsorted array by the
\* depth-first search, every matcher evaluated later in the case whose path
\* leads through that array element by object fields only is evaluated on
\* the node those fields name inside the selected element.
C3_SameSelectedElement ==
    \A i, j \in 1..Len(evalLog) :
        (i < j /\ evalLog[i].list = evalLog[j].list /\ evalLog[i].sel # <<>>)
            => LET a == evalLog[i].sel[1]
                   b == evalLog[j]
                   n == Len(a.prefix)
               IN (/\ Len(b.Keys) >= n
                   /\ Names(SubSeq(b.Keys, 1, n)) = Names(a.prefix)
                   /\ \A k \in (n + 1)..Len(b.Keys) : ~b.Keys[k].IsArrayElement)
                      => b.Node = NodeAt(a.elem, b.Keys, n + 1)

\* The case is the one of scenario E3, whatever order its properties were
\* loaded in, run on E3's response with the expected status code and header.
IsE3 ==
    /\ \E properties \in Perms(ItemProperties(0, 1, "a@b", FALSE)) :
           case.Config.Response.Payload = <<<<"data", DataDef(properties)>>>>
    /\ case.Config.Response.Headers = <<<<"ct", S("json")>>>>
    /\ result.Response = E3Response
    /\ result.StatusCode = 200
    /\ result.ResponseHeaders = M([ct |-> S("json")])

\* C4: the case of scenario E3 on E3's response passes and leaves uid = 42
\* in the suite store, whatever order the searches visit the keys of the
\* response's objects in.
C4_E3CapturesCharles ==
    (pc = "done" /\ IsE3)
        => /\ outcome.passed
           /\ ~outcome.err
           /\ "uid" \in DOMAIN GlobalDataStore
           /\ GlobalDataStore["uid"] = I(42)

C4_Witness == pc = "done" /\ IsE3 /\ outcome.passed

\* The entries of evalLog for the list Validate is at.
EvaluatedAt(p) == {k \in 1..Len(evalLog) : evalLog[k].list = p}

\* C13: when Match returns without an error on a response that is not
\* empty, every matcher of the list has been evaluated once and has
\* contributed one field result, in the order of evaluation, whether or not
\* earlier matchers failed; and the list's status is the conjunction of the
\* field results' statuses.
C13_MismatchDoesNotStop ==
    (match.phase = "returned" /\ ~match.err /\ validateEmpty(match.Config, ResponseAt(pc)))
        => /\ Len(match.results) = Len(match.Config)
           /\ Cardinality(EvaluatedAt(pc)) = Len(match.Config)
           /\ \A i \in 1..Len(match.results) :
                  match.results[i].ObjectKeyPath = GetPath(match.Config[i].ObjectKeyPath)
           /\ match.aggregatedStatus = (\A i \in 1..Len(match.results) : match.results[i].Status)

\* Match has returned from a list of at least three matchers of which one
\* that is not the last failed.
C13_Witness ==
    /\ match.phase = "returned" /\ ~match.err
    /\ Len(match.Config) >= 3
    /\ Len(match.results) = Len(match.Config)
    /\ \E i \in 1..(Len(match.results) - 1) : ~match.results[i].Status

----------------------------------------------------------------------------
(* Properties of the suite loop                                            *)

\* The cases of the suite that ExecuteTests has entered Execute for.
Executed == {execLog[k].index : k \in 1..Len(execLog)}

C6_DeclaredOrderUntilExit ==
    /\ \A k \in 1..Len(execLog) :
          /\ execLog[k].index = k
          /\ \A i \in 1..k : ~suite.Tests[i].Config.ExitOnRun
    /\ (run.returned /\ ~run.err)
          => \A j \in 1..Len(suite.Tests) :
                 (\A i \in 1..j : ~suite.Tests[i].Config.ExitOnRun) => j \in Executed

\* The suite has returned at an exit case that has cases before and after it.
C6_Witness ==
    /\ run.returned /\ ~run.err
    /\ \E i \in 2..(Len(suite.Tests) - 1) :
          /\ suite.Tests[i].Config.ExitOnRun
          /\ Len(execLog) = i - 1

\* The k-th executed case passed and its matchers define the capture uid.
PassedCapture(k) ==
    /\ execLog[k].passed
    /\ ~suite.Tests[execLog[k].index].Config.Skip
    /\ \E i \in 1..Len(suite.Tests[execLog[k].index].ResponseMatcher.Config) :
          suite.Tests[execLog[k].index].ResponseMatcher.Config[i].Matcher.DSName = "uid"

\* C7: when a case resolves its input, the suite store holds under uid the
\* value captured by the latest earlier case that passed and captured uid.
C7_LaterCasesSeeCapture ==
    \A k, j \in 1..Len(execLog) :
        (k < j /\ PassedCapture(k) /\ \A l \in (k + 1)..(j - 1) : ~PassedCapture(l))
            => /\ "uid" \in DOMAIN execLog[j].before
               /\ execLog[j].before["uid"] = wire[execLog[k].index].Response.m["id"]

----------------------------------------------------------------------------
(* Properties of the multi-suite run                                       *)

\* The messages received so far that carry the suite k.
ReceivedOf(k) == {i \in 1..Len(received) : received[i].Suite = k}

\* The cases of the suite k executed so far.
ExecutedOf(k) == {e.index : e \in {x \in accessed : x.Suite = k}}

\* C8: no suite is received by a worker more than once, every case executed
\* was executed by the worker that received its suite, and once the run has
\* returned every suite has been received exactly once and its ExecuteTests
\* has returned, having executed its cases from the first to where it stopped.
C8_EachSuiteOnceOnOneWorker ==
    /\ \A k \in DOMAIN Suites : Cardinality(ReceivedOf(k)) <= 1
    /\ \A e \in accessed :
          \E i \in 1..Len(received) : received[i] = [worker |-> e.worker, Suite |-> e.Suite]
    /\ main.pc = "returned"
          => \A k \in DOMAIN Suites :
                 /\ Cardinality(ReceivedOf(k)) = 1
                 /\ Suites[k].run.returned
                 /\ ExecutedOf(k) = 1..(IF Suites[k].run.err THEN Suites[k].run.testIndex
                                        ELSE Suites[k].run.testIndex - 1)

\* The run has returned after two workers have each executed a suite.
C8_Witness ==
    /\ main.pc = "returned"
    /\ \E e1, e2 \in accessed : e1.worker # e2.worker /\ e1.Suite # e2.Suite

\* C9: the workers inside a suite's ExecuteTests are never more than threads.
C9_AtMostThreadsExecuting ==
    Cardinality({w \in DOMAIN workers : Executing(w)}) <= threads

\* Every worker of the pool is executing a suite while another suite waits
\* in the channel.
C9_Witness ==
    /\ threads >= 1
    /\ Cardinality({w \in DOMAIN workers : Executing(w)}) = threads
    /\ workerMessages.buf # <<>>

\* C10: the store a case worked on is the store of the suite being executed
\* and of no other suite; a suite's store is empty until one of its own
\* cases has been executed, and what it holds under uid was captured from a
\* response to one of the suite's own cases.
C10_OwnStoreOnly ==
    /\ \A e \in accessed :
          /\ e.store = Suites[e.Suite].GlobalDataStore
          /\ \A k \in (DOMAIN Suites) \ {e.Suite} : Suites[k].GlobalDataStore # e.store
    /\ \A k \in DOMAIN Suites :
          /\ stores[Suites[k].GlobalDataStore] # EmptyStore => ExecutedOf(k) # {}
          /\ "uid" \in DOMAIN stores[Suites[k].GlobalDataStore]
                => \E i \in ExecutedOf(k) :
                       stores[Suites[k].GlobalDataStore]["uid"] = transport[k][i].Response.m["id"]

\* Two workers are executing different suites at the same time, and each
\* suite has captured a different value into its store.
C10_Witness ==
    \E w1, w2 \in DOMAIN workers :
        /\ Executing(w1) /\ Executing(w2)
        /\ workers[w1].m.Suite # workers[w2].m.Suite
        /\ "uid" \in DOMAIN stores[Suites[workers[w1].m.Suite].GlobalDataStore]
        /\ "uid" \in DOMAIN stores[Suites[workers[w2].m.Suite].GlobalDataStore]
        /\ stores[Suites[workers[w1].m.Suite].GlobalDataStore]["uid"]
               # stores[Suites[workers[w2].m.Suite].GlobalDataStore]["uid"]

----------------------------------------------------------------------------
(* Properties of the websocket sessions                                    *)

\* C11: when ExecuteTests has returned, after the last case, at an exit case
\* or after a case error, every connection dialled is closed and the suite
\* store holds no websocket client.
C11_ReturnedMeansClosed ==
    wsRun.returned
        => /\ \A c \in 1..Len(wsState.conns) : wsState.conns[c] = "closed"
           /\ wsState.store = NoClient

\* ExecuteTests has returned after a case error, with a connection dialled
\* by an earlier case that did not ask for it to be closed.
C11_Witness ==
    /\ wsRun.returned /\ wsRun.err
    /\ \E k \in 1..Len(wsLog) : wsLog[k].opened /\ ~wsLog[k].close /\ wsLog[k].index < wsRun.testIndex

\* C12: of two websocket cases with no websocket case between them, the
\* later one works with the connection of the earlier one if the earlier
\* one's input did not say close, and dials a connection no case has had
\* before if it did.
C12_SessionSharedUntilClose ==
    \A k \in 1..(Len(wsLog) - 1) :
        IF wsLog[k].close
        THEN /\ wsLog[k + 1].opened
             /\ \A j \in 1..k : wsLog[j].conn # wsLog[k + 1].conn
        ELSE /\ ~wsLog[k + 1].opened
             /\ wsLog[k + 1].conn = wsLog[k].conn

\* Three websocket cases have run: the second shared the first's connection
\* and closed it, the third dialled a new one.
C12_Witness ==
    /\ Len(wsLog) >= 3
    /\ ~wsLog[1].close /\ wsLog[2].close
    /\ wsLog[2].conn = wsLog[1].conn
    /\ wsLog[3].opened /\ wsLog[3].conn # wsLog[1].conn


----------------------------------------------------------------------------
(* Properties of numeric expressions                                       *)

\* x < N, x <= N, x > N, x >= N for the operator written in the expression.
Holds(op, x, n) ==
    CASE op = <<"<">> -> x < n
      [] op = <<"<", "=">> -> x <= n
      [] op = <<">">> -> x > n
      [] op = <<">", "=">> -> x >= n

\* C14: an expression `$< N`, `$<= N`, `$> N` or `$>= N` matched against a
\* number x (an integer value or an array length) gives status true exactly
\* when x < N, x <= N, x > N or x >= N, and when the comparison is false
\* the matcher's text ends with the message that names the operator, N and x.
C14_NumExprCompares ==
    (ret # <<>> /\ call.fn \in {"IntegerMatcher.Match", "ArrayMatcher.Match"})
        => /\ ~ret[1].err
           /\ ret[1].status = Holds(call.expr.op, call.number, call.expr.operand)
           /\ ~Holds(call.expr.op, call.number, call.expr.operand)
                  => /\ Len(ret[1].ErrorStr) >= 4
                     /\ SubSeq(ret[1].ErrorStr, Len(ret[1].ErrorStr) - 3, Len(ret[1].ErrorStr))
                            = <<"NumExpressionErrFmt", call.expr.op, call.expr.operand, call.number>>


----------------------------------------------------------------------------
(* Properties of the keyed store                                           *)

\* The value of a store at a path, read as the path's writer means it: a
\* field of a map, an index inside a sequence.
RECURSIVE At(_, _, _)
At(node, segs, i) ==
    IF i > Len(segs) THEN [found |-> TRUE, value |-> node]
    ELSE IF segs[i].kind = "fld"
    THEN IF node.t = "map" /\ segs[i].name \in DOMAIN node.m
         THEN At(node.m[segs[i].name], segs, i + 1)
         ELSE [found |-> FALSE, value |-> Null]
    ELSE IF node.t = "seq" /\ segs[i].index < Len(node.e)
         THEN At(node.e[segs[i].index + 1], segs, i + 1)
         ELSE [found |-> FALSE, value |-> Null]

Prefix(segs, n) == SubSeq(segs, 1, n)

\* Every value the store holds on the way is a container of the kind the
\* next segment asks for: only missing keys and short sequences are in the
\* way of the path.
Materialises(store, segs) ==
    \A n \in 0..(Len(segs) - 1) :
        At(store, Prefix(segs, n), 1).found
            => At(store, Prefix(segs, n), 1).value.t
                   = (IF segs[n + 1].kind = "fld" THEN "map" ELSE "seq")

\* The path indexes a sequence of the store at or beyond its length.
IndexesBeyond(store, segs) ==
    \E n \in 0..(Len(segs) - 1) :
        /\ At(store, Prefix(segs, n), 1).found
        /\ At(store, Prefix(segs, n), 1).value.t = "seq"
        /\ segs[n + 1].kind = "idx"
        /\ segs[n + 1].index >= Len(At(store, Prefix(segs, n), 1).value.e)

\* The path applies an index to a value of the store that is no sequence.
IndexesNonSequence(store, segs) ==
    \E n \in 0..(Len(segs) - 1) :
        /\ At(store, Prefix(segs, n), 1).found
        /\ At(store, Prefix(segs, n), 1).value.t # "seq"
        /\ segs[n + 1].kind = "idx"

\* C15: a put on a path whose intermediate maps or sequences are missing,
\* or whose index is at or beyond the end of a sequence, succeeds, and the
\* get of the same path that follows returns the value.
C15_PutThenGetReturnsValue ==
    (call.fn = "store" /\ ret # <<>> /\ ret[1].op = "put" /\ Materialises(call.store, call.segs))
        => /\ ~ret[1].r.panic
           /\ ret[1].r.err = "nil"
           /\ Len(ret) = 2 => ret[2].r = GetReturn(call.value, "nil")

\* C16: a get whose path indexes a sequence at a position greater than or
\* equal to its length returns the index-out-of-bounds error.
C16_GetBeyondIsError ==
    (call.fn = "store" /\ ret # <<>> /\ ret[1].op = "get" /\ IndexesBeyond(call.store, call.segs))
        => /\ ~ret[1].r.panic
           /\ ret[1].r.err = "IndexExceedsDSFmt"

\* C17: PutJsonValue returns an error exactly when the path applies an
\* index to an existing value that is not a sequence; otherwise the value
\* is in the store at the path.
C17_PutFailsOnlyOnNonSequence ==
    (call.fn = "store" /\ call.impl = "json" /\ ret # <<>> /\ ret[1].op = "put")
        => /\ ~ret[1].r.panic
           /\ (ret[1].r.err # "nil") = IndexesNonSequence(call.store, call.segs)
           /\ ret[1].r.err = "nil"
                  => At(ret[1].r.node, call.segs, 1) = [found |-> TRUE, value |-> call.value]


----------------------------------------------------------------------------
(* Properties of variable expansion                                        *)

\* What a variable stands for: the variables in its name are resolved
\* first, each must stand for a text, and the name read with those texts
\* in their places is looked up in the store, field by field.
RECURSIVE Stands(_)
RECURSIVE StandNames(_, _)
StandNames(parts, i) ==
    IF i > Len(parts) THEN [ok |-> TRUE, segs |-> <<>>]
    ELSE LET tl == StandNames(parts, i + 1) IN
         IF ~tl.ok THEN tl
         ELSE IF parts[i].k = "name" THEN [ok |-> TRUE, segs |-> <<Fld(<<parts[i].n>>)>> \o tl.segs]
         ELSE LET inner == Stands(parts[i]) IN
              IF inner.found /\ inner.value.t = "txt"
              THEN [ok |-> TRUE, segs |-> <<Fld(inner.value.c)>> \o tl.segs]
              ELSE [ok |-> FALSE, segs |-> <<>>]

Stands(term) ==
    IF StandNames(term.parts, 1).ok THEN At(ExpandStore, StandNames(term.parts, 1).segs, 1)
    ELSE [found |-> FALSE, value |-> Null]

IsNested(term) == \E i \in 1..Len(term.parts) : term.parts[i].k = "term"

\* Every variable of the input stands for a value of the store.
AllStand(pieces) == \A i \in 1..Len(pieces) : pieces[i].k = "term" => Stands(pieces[i]).found

\* The input with each outermost variable replaced by the string form of
\* what it stands for.
RECURSIVE Substituted(_, _)
Substituted(pieces, i) ==
    IF i > Len(pieces) THEN <<>>
    ELSE (IF pieces[i].k = "lit" THEN pieces[i].text
          ELSE varToStringText(Stands(pieces[i]).value))
         \o Substituted(pieces, i + 1)

\* C18: a variable whose name holds variables, alone or followed by text,
\* expands to what it stands for once the inner variables are substituted
\* into every variable around them, innermost first.
C18_NestedResolvedInnermostFirst ==
    (call.fn = "ExpandVariable" /\ ret # <<>>
     /\ call.pieces[1].k = "term" /\ IsNested(call.pieces[1]) /\ Stands(call.pieces[1]).found
     /\ (Len(call.pieces) = 1 \/ call.pieces[2].k = "lit"))
        => ret[1] = ExpandReturn(IF Len(call.pieces) = 1 THEN Stands(call.pieces[1]).value
                                 ELSE X(Substituted(call.pieces, 1)), "nil")

\* C19: the resolved value itself is returned exactly when one variable
\* spans the whole input; every other input comes back as a text, each
\* outermost variable replaced by the string form of its value.
C19_ValueOnlyWhenSpanning ==
    (call.fn = "ExpandVariable" /\ ret # <<>> /\ AllStand(call.pieces))
        => ret[1] = ExpandReturn(IF Len(call.pieces) = 1 /\ call.pieces[1].k = "term"
                                 THEN Stands(call.pieces[1]).value
                                 ELSE X(Substituted(call.pieces, 1)), "nil")

\* The variable a stored text refers to, when the text is one reference.
RefersTo(name) ==
    IF name \in DOMAIN ExpandStore.m /\ ExpandStore.m[name].t = "txt" /\ isVar(ExpandStore.m[name].c)
    THEN <<SubSeq(ExpandStore.m[name].c, Len(VAR_PREFIX) + 1,
                  Len(ExpandStore.m[name].c) - Len(VAR_SUFFIX))>>
    ELSE <<>>

RECURSIVE ReachesIn(_, _, _)
ReachesIn(from, to, steps) ==
    /\ steps > 0
    /\ RefersTo(from) # <<>>
    /\ (RefersTo(from)[1] = to \/ ReachesIn(RefersTo(from)[1], to, steps - 1))

\* The stored value of the variable refers to the variable itself,
\* directly or through other variables.
Cyclic(name) == ReachesIn(name, name, Cardinality(DOMAIN ExpandStore.m))

\* C20: the expansion of an input that holds a variable whose stored value
\* refers to itself, directly or through a cycle, returns an error.
C20_CycleIsBadVariable ==
    (call.fn = "ExpandVariable" /\ ret # <<>>
     /\ \E i \in 1..Len(call.pieces) :
            /\ call.pieces[i].k = "term"
            /\ Len(call.pieces[i].parts) = 1
            /\ call.pieces[i].parts[1].k = "name"
            /\ Cyclic(<<call.pieces[i].parts[1].n>>))
        => ret[1].err # "nil"

\* A variable of the subcommand, at any depth.
RECURSIVE CommandVariables(_)
CommandVariables(cmd) ==
    {cmd.args[i] : i \in {j \in 1..Len(cmd.args) : cmd.args[j].k = "term"}}
    \cup UNION {CommandVariables(cmd.args[i]) : i \in {j \in 1..Len(cmd.args) : cmd.args[j].k = "cmd"}}

\* The argument list holds the reference to the variable, unexpanded.
HoldsReference(args, term) == \E n \in 1..Len(args) : Contains(args[n], TermText(term))

\* C21: when a case's input is resolved, every variable reference of a
\* text is expanded before any subcommand of the text is executed: no
\* command line that is run holds the reference to a variable that stands
\* for a value of the store.
C21_VariablesExpandedBeforeCommands ==
    (call.fn = "GetResolvedTestInput" /\ ret # <<>>)
        => \A term \in CommandVariables(call.cmd) :
               Stands(term).found
                   => \A n \in 1..Len(ret[1].ran) : ~HoldsReference(ret[1].ran[n], term)

\* What a subcommand means: its program run on its arguments, each
\* subcommand among them replaced by what it means.
RECURSIVE Means(_)
RECURSIVE MeantArgs(_, _)
Means(cmd) ==
    IF MeantArgs(cmd.args, 1).err THEN [out |-> <<>>, err |-> TRUE]
    ELSE [out |-> executeCommandStr(CMD_PREFIX \o MeantArgs(cmd.args, 1).text \o CMD_SUFFIX).out,
          err |-> executeCommandStr(CMD_PREFIX \o MeantArgs(cmd.args, 1).text \o CMD_SUFFIX).err]

MeantArgs(args, i) ==
    IF i > Len(args) THEN [text |-> <<>>, err |-> FALSE]
    ELSE [text |-> (IF i > 1 THEN <<CMD_DELIMITER>> ELSE <<>>)
                   \o (CASE args[i].k = "lit" -> args[i].text
                         [] args[i].k = "term" -> TermText(args[i])
                         [] OTHER -> Means(args[i]).out)
                   \o MeantArgs(args, i + 1).text,
          err |-> (args[i].k = "cmd" /\ Means(args[i]).err) \/ MeantArgs(args, i + 1).err]

\* C22: nested subcommands are executed innermost first, the output of
\* each replacing its text in every subcommand around it: a text that is
\* one subcommand, all of whose subcommands succeed, comes back as what the
\* subcommand means.
C22_NestedCommandsInnermostFirst ==
    (call.fn = "ExecuteCommand" /\ ret # <<>> /\ ~Means(call.cmd).err)
        => (~ret[1].err /\ ret[1].value = Means(call.cmd).out)

\* C23: a non-empty matcher list matched against a response that is null,
\* an empty object or an empty array evaluates no matcher and returns
\* failure, no error, and exactly one field result, with path "response"
\* and the error "Expected a non-null response payload.".
C23_EmptyResponseFailsAtOnce ==
    (match.phase = "returned" /\ pc = "payload" /\ result.Response \in EmptyResponses
     /\ Len(match.Config) > 0)
        => /\ ~match.aggregatedStatus
           /\ ~match.err
           /\ Len(match.results) = 1
           /\ match.results[1].ObjectKeyPath = <<<<"fld", "response">>>>
           /\ match.results[1].Error = <<"Expected a non-null response payload.">>
           /\ ~match.results[1].Status
           /\ \A n \in 1..Len(evalLog) : evalLog[n].list # "payload"
           /\ match.Config = case.ResponseMatcher.Config

C23_Witness ==
    /\ match.phase = "returned" /\ pc = "payload" /\ result.Response = M(<<>>)
    /\ Len(match.Config) > 0
    /\ Len(match.results) = 1
    /\ ~match.aggregatedStatus

\* C24: a Bool matcher whose pattern is a boolean literal passes exactly
\* when the response value is a boolean equal to that literal.
C24_BoolLiteralPattern ==
    (call.fn = "BoolMatcher.Match" /\ ret # <<>>
     /\ call.m.Pattern # <<>> /\ ~ParseBool(call.m.Pattern[1]).err)
        => (ret[1].status <=> (call.responseValue.t = "bool"
                               /\ call.responseValue.b = ParseBool(call.m.Pattern[1]).res))

\* C25: an external matcher defined with bin and args, evaluated on a
\* value that is there, passes exactly when the program's exit code equals
\* `returns`; without `returns` it passes whatever the exit code.
C25_ExitCodeEqualsReturns ==
    (call.fn = "ExecutableMatcher.Match" /\ ret # <<>> /\ ~ret[1].panic /\ ~ret[1].err
     /\ call.m.Cmd = <<>> /\ call.m.PrgmArgs # Null /\ call.m.Exists
     /\ ~IsNil(call.responseValue))
        => (ret[1].status <=>
               (call.m.ReturnCode = <<>>
                \/ call.m.ReturnCode[1] = ExitCode(<<call.m.BinPath>>)))

\* C29: the evaluation of a matcher does not modify the store it is given,
\* which is the suite store: its captures are in the scratch store it
\* returns.
C29_MatcherLeavesSuiteStore ==
    (call.fn = "ExecutableMatcher.Match" /\ ret # <<>>) => ret[1].DS = call.datastore

\* The body with every run of n backslashes replaced by a run of kept[n].
RECURSIVE Collapsed(_, _, _)
Collapsed(body, i, kept) ==
    IF i > Len(body) THEN <<>>
    ELSE (IF body[i].k = "char" THEN <<body[i].c>> ELSE Backslashes(kept[body[i].n]))
         \o Collapsed(body, i + 1, kept)

\* The collapse the claim states: an odd run keeps one escape, an even run
\* loses two backslashes.
StatedKept == [n \in 1..(MaxEscapes + 1) |-> IF n % 2 = 0 THEN n - 2 ELSE 1]

\* The collapse of the code: a single backslash goes, an even run loses
\* one backslash, a longer odd run loses two.
CodeKept == [n \in 1..(MaxEscapes + 1) |-> IF n = 1 THEN 0 ELSE IF n % 2 = 0 THEN n - 1 ELSE n - 2]

BadVariableAt(i) ==
    /\ match.Config[i].Matcher.Value.t = "var"
    /\ match.Config[i].Matcher.Value.n \notin DOMAIN GlobalDataStore

\* The loop of MatchBase stands at such a matcher.
AtBadVariable == match.mIndex <= Len(match.Config) /\ BadVariableAt(match.mIndex)

SortedAtStart == SortConfigs(case.ResponseMatcher.Config)

\* The k-th matcher of that list is an Object matcher on an unsorted path.
IsDeferred(k) ==
    SortedAtStart[k].Matcher.Type = "object" /\ ~SortedAtStart[k].ObjectKeyPath.Sorted

\* The evaluations of the payload list that the log holds for the keys.
EvaluationsOf(keys) == {n \in 1..Len(evalLog) : evalLog[n].list = "payload" /\ evalLog[n].Keys = keys}

\* The matcher with the keys stands in the list being matched at position i.
StandsAt(keys, i) == i \in 1..Len(match.Config) /\ match.Config[i].ObjectKeyPath.Keys = keys

\* The loop has come to the matcher with the keys and has deferred it: its
\* path is marked sorted.
HasBeenDeferred(keys) ==
    \E i \in 1..Len(match.Config) : StandsAt(keys, i) /\ match.Config[i].ObjectKeyPath.Sorted

\* A deferred matcher that has not been evaluated yet stands behind every
\* matcher that has not been deferred, and has no field result.
WaitsAtTail(keys) ==
    (HasBeenDeferred(keys) /\ EvaluationsOf(keys) = {})
        => /\ \A i, j \in 1..Len(match.Config) :
                  (StandsAt(keys, i) /\ i < j) => match.Config[j].ObjectKeyPath.Sorted
           /\ \A r \in 1..Len(match.results) :
                  match.results[r].ObjectKeyPath # GetJsonPath(keys, Len(keys)).path

\* The k-th matcher of the sorted list is evaluated only after the j-th.
EvaluatedAfter(k, j) ==
    \A n \in EvaluationsOf(SortedAtStart[k].ObjectKeyPath.Keys) :
        \E b \in EvaluationsOf(SortedAtStart[j].ObjectKeyPath.Keys) : b < n

MatchingPayload ==
    /\ pc = "payload" /\ match.phase \in {"loop", "returned"} /\ ~match.err
    /\ validateEmpty(match.Config, result.Response)

SansError(config) == [config EXCEPT !.Matcher.ErrorStr = <<>>]

\* C30: a call of Match changes nothing in the matcher list but the error
\* fields and the positions: when it returns, the list holds the configs it
\* held before the call, each exactly once, every one with the path and
\* the sorted flag it had.
C30_ListKeptButErrors ==
    (match.phase = "returned" /\ pc \in {"code", "payload", "headers"})
        => /\ Len(match.Config) = Len(case[MatcherAt(pc)].Config)
           /\ \A i \in 1..Len(match.Config) :
                  Cardinality({j \in 1..Len(match.Config) :
                                   SansError(match.Config[j]) = SansError(case[MatcherAt(pc)].Config[i])})
                      = 1

----------------------------------------------------------------------------
(* Properties of a stepped case                                            *)

\* The error text an evaluation of matcher m on `node` leaves when the
\* error field is empty at its start; when the walk could not locate the
\* node, the text MatchConfig sets for that comes first.
ErrorOfEvaluation(m, node, ds) ==
    {EvalNode([m EXCEPT !.ErrorStr = <<>>], node, ds).ErrorStr,
     EvalNode([m EXCEPT !.ErrorStr = SetError(m, "Failed locate node")], node, ds).ErrorStr}

\* C31: each evaluation of a matcher starts with its error field reset:
\* whenever a pass of the matching loop appends a field result, the error
\* text of that result is the text the evaluation of the matcher on the
\* node it was evaluated on produces from an empty error field, never text
\* left by an earlier evaluation of the same matcher.
C31_ErrorFromCurrentEvaluation ==
    [][(match.phase = "loop" /\ Len(match'.results) = Len(match.results) + 1)
        => match'.results[Len(match'.results)].Error
               \in ErrorOfEvaluation(match.Config[match.mIndex].Matcher,
                                     evalLog'[Len(evalLog')].Node, GlobalDataStore)]_vars

RECURSIVE Arrays(_)
\* The arrays of a response.
Arrays(v) ==
    IF v.t = "seq" THEN {v} \cup UNION {Arrays(v.e[i]) : i \in 1..Len(v.e)}
    ELSE IF v.t = "map" THEN UNION {Arrays(v.m[k]) : k \in DOMAIN v.m}
    ELSE {}

\* The searches MatchConfig can start for the matchers of the list on the
\* response of the step: an array of the response, a matcher, and the name
\* of one of its keys as the target key.
Searches ==
    UNION {{[node |-> n, matcher |-> match.Config[i].Matcher,
             key |-> match.Config[i].ObjectKeyPath.Keys[j].Name] :
               n \in Arrays(result.Response),
               j \in 1..Len(match.Config[i].ObjectKeyPath.Keys)} :
           i \in 1..Len(match.Config)}

\* The found node of a search result sits in an object, as the value of the
\* property `key`.
UnderProperty(res, key) ==
    /\ key \in DOMAIN res.NodeChain[2].m
    /\ res.NodeChain[2].m[key] = res.NodeChain[1]

\* C32: a node that a depth-first search finds as the value of an object
\* property is handed back as found only under the property named like the
\* target key: whatever array of the response is searched for whatever
\* matcher of the list, a found node whose container is an object is the
\* value of the target key in that object.
C32_FoundUnderTargetKeyOnly ==
    match.phase = "loop" =>
        \A s \in Searches : \A ord \in Orders(result.Response) :
            LET res == depthMatch(s.node, s.matcher, GlobalDataStore, s.key, ord)
            IN (res.Status /\ Len(res.NodeChain) >= 2 /\ res.NodeChain[2].t = "map")
                   => (res.MatchedNodeKey /\ UnderProperty(res, s.key))

\* The email matcher has been evaluated on the email of the second element
\* of the alias response, whose first element holds the matching text under
\* the property alias; the search for it found that node under email.
C32_Witness ==
    /\ result.Response = AliasResponse
    /\ match.phase = "loop"
    /\ \E i \in 1..Len(evalLog) :
          /\ evalLog[i].Node = S("a@b")
          /\ evalLog[i].sel # <<>>
          /\ evalLog[i].sel[1].elem = Element("a@b", 42)
    /\ \E s \in Searches : \E ord \in Orders(result.Response) :
          LET res == depthMatch(s.node, s.matcher, GlobalDataStore, s.key, ord)
          IN /\ s.key = "email"
             /\ ord[AliasElement][1] = "alias"
             /\ res.Status
             /\ res.NodeChain[1] = S("a@b")
             /\ res.NodeChain[2] = Element("a@b", 42)

----------------------------------------------------------------------------
(* Properties of the token stack                                           *)

\* The symbol at position i (from 0) of the input is looked at: it is no
\* backslash and no backslash stands before it.
Live(i) ==
    /\ call.input[i + 1] # "\\"
    /\ i > 0 => call.input[i] # "\\"

Occurs(text, i) ==
    /\ i + Len(text) <= Len(call.input)
    /\ SubSeq(call.input, i + 1, i + Len(text)) = text

\* A prefix opens at position i; a suffix stands at position i.
Opens(i) == Live(i) /\ Occurs(call.prefix, i)
Closes(i) == Live(i) /\ ~Opens(i) /\ Occurs(call.suffix, i)

OpensIn(p, k) == Cardinality({i \in (p + 1)..k : Opens(i)})
ClosesIn(p, k) == Cardinality({i \in (p + 1)..k : Closes(i)})

\* The closed regions of the input: a prefix at p and a suffix at q with
\* nothing but closed regions between them.
Regions ==
    {r \in (0..(Len(call.input) - 1)) \X (0..(Len(call.input) - 1)) :
        /\ r[1] < r[2]
        /\ Opens(r[1])
        /\ Closes(r[2])
        /\ OpensIn(r[1], r[2] - 1) = ClosesIn(r[1], r[2] - 1)
        /\ \A k \in (r[1] + 1)..(r[2] - 1) : OpensIn(r[1], k) >= ClosesIn(r[1], k)}

\* The frame of a region.
FrameOf(frames, r) ==
    {i \in 1..Len(frames) :
        /\ frames[i].StartPos = r[1]
        /\ frames[i].EndPos = r[2] + Len(call.suffix) - 1
        /\ frames[i].Token = SubSeq(call.input, r[1] + 1, r[2] + Len(call.suffix))}

Encloses(f, g) == f.StartPos < g.StartPos /\ g.EndPos <= f.EndPos

----------------------------------------------------------------------------
(* Termination of the multi-suite run                                      *)

\* The goroutine that called ExecuteTests can take a step: it sends or
\* closes, a result is there to collect, or every worker is done.
MainCanStep ==
    \/ main.pc = "send"
    \/ /\ main.pc = "collect"
       /\ \/ main.i < Cardinality(DOMAIN Suites) /\ workerResults # <<>>
          \/ main.i = Cardinality(DOMAIN Suites) /\ wg = 0

\* Worker w can take a step: a message or the close is there to receive, its
\* suite is still executing, or the result channel has room.
WorkerCanStep(w) ==
    \/ workers[w].pc = "recv" /\ (workerMessages.buf # <<>> \/ workerMessages.closed)
    \/ /\ Executing(w)
       /\ \/ ~Suites[workers[w].m.Suite].run.returned
          \/ Len(workerResults) < threads

\* No goroutine can take a step although ExecuteTests has not returned: the
\* Go runtime ends the program with "all goroutines are asleep".
Stuck ==
    /\ main.pc # "returned"
    /\ ~MainCanStep
    /\ \A w \in DOMAIN workers : ~WorkerCanStep(w)

\* Every step of the run is taken by a goroutine that can take one, so a
\* state that is Stuck has no step.
StepsOnlyWhenAble ==
    [][MultiNext => (MainCanStep \/ \E w \in DOMAIN workers : WorkerCanStep(w))]_vars

\* C34: MultiTestSuite.ExecuteTests terminates without deadlock for every
\* number of suites and every worker count the command line accepts (0 and
\* up): it never waits with no goroutine able to go on, and when it has
\* returned it returns exactly one result for every loaded suite.
C34_ExecuteTestsNeverStuck ==
    /\ ~Stuck
    /\ main.pc = "returned" /\ Suites # <<>> =>
          /\ Len(main.results) = Cardinality(DOMAIN Suites)
          /\ {main.results[i].TestFile : i \in 1..Len(main.results)} = DOMAIN Suites

----------------------------------------------------------------------------
(* Termination of the matching loop                                        *)

\* The matchers from mIndex on that the loop would still defer: object
\* matchers whose path is not marked sorted.
Deferrable(ms) ==
    {i \in ms.mIndex..Len(ms.Config) :
        ms.Config[i].Matcher.Type = "object" /\ ~ms.Config[i].ObjectKeyPath.Sorted}

\* A bound on the loop passes still to come: the matchers from mIndex on,
\* and one more pass for each that is still to be deferred.
PassesLeft(ms) == (Len(ms.Config) - ms.mIndex + 1) + Cardinality(Deferrable(ms))

\* This pass of the loop deferred the matcher at mIndex.
DeferredNow ==
    /\ match'.phase = "loop"
    /\ match'.mIndex = match.mIndex
    /\ Len(match'.results) = Len(match.results)

\* The field results of ms for the config at i.
ResultsOf(ms, i) ==
    {k \in 1..Len(ms.results) : ms.results[k].ObjectKeyPath = GetPath(ms.Config[i].ObjectKeyPath)}

\* C35: a run of the matching loop on any matcher list terminates (every
\* pass lowers a bound on the passes left), defers each matcher at most once
\* (only a matcher whose path is not marked sorted is deferred, the deferral
\* marks it, and no pass removes a mark), and, unless a matcher error ends
\* it, returns exactly one field result for every config of the list.
C35_LoopEndsOneResultPerConfig ==
    [][match.phase = "loop" =>
        /\ match'.phase = "loop" => PassesLeft(match') < PassesLeft(match)
        /\ DeferredNow =>
              /\ ~match.Config[match.mIndex].ObjectKeyPath.Sorted
              /\ match'.Config[Len(match'.Config)].ObjectKeyPath =
                     [match.Config[match.mIndex].ObjectKeyPath EXCEPT !.Sorted = TRUE]
        /\ match'.phase \in {"loop", "returned"} =>
              /\ Len(match'.Config) = Len(match.Config)
              /\ \A i, j \in 1..Len(match.Config) :
                    (/\ match.Config[i].ObjectKeyPath.Keys = match'.Config[j].ObjectKeyPath.Keys
                     /\ match.Config[i].ObjectKeyPath.Sorted)
                        => match'.Config[j].ObjectKeyPath.Sorted
        /\ (match'.phase = "returned" /\ ~match'.err) =>
              /\ Len(match'.results) = Len(match'.Config)
              /\ \A i \in 1..Len(match'.Config) : Cardinality(ResultsOf(match', i)) = 1]_vars

\* A run of the loop on the payload list has returned without an error: it
\* deferred an object matcher, whose path is now marked sorted and was not
\* when the call began, and it holds one result per config.
C35_Witness ==
    /\ pc = "payload"
    /\ match.phase = "returned"
    /\ ~match.err
    /\ validateEmpty(match.Config, result.Response)
    /\ Len(match.Config) >= 3
    /\ Len(match.results) = Len(match.Config)
    /\ \E i, j \in 1..Len(match.Config) :
          /\ match.Config[i].Matcher.Type = "object"
          /\ match.Config[i].ObjectKeyPath.Sorted
          /\ case.ResponseMatcher.Config[j].ObjectKeyPath.Keys = match.Config[i].ObjectKeyPath.Keys
          /\ ~case.ResponseMatcher.Config[j].ObjectKeyPath.Sorted

----------------------------------------------------------------------------
(* The node cache over the steps of a case                                 *)

RECURSIVE Nodes(_)
\* The nodes of a response: the response and every value in it.
Nodes(v) ==
    {v} \cup (IF v.t = "map" THEN UNION {Nodes(v.m[k]) : k \in DOMAIN v.m}
              ELSE IF v.t = "seq" THEN UNION {Nodes(v.e[i]) : i \in 1..Len(v.e)}
              ELSE {})

\* C36: every call of Match evaluates its matchers only on nodes of the
\* response passed to that call: whenever a pass of the loop evaluates a
\* matcher, the node it is evaluated on is a node of the step's response (or
\* nil, when the response has no such node), never a node that was cached
\* while an earlier response was matched.
C36_OnlyNodesOfThisResponse ==
    [][(match.phase = "loop" /\ Len(evalLog') = Len(evalLog) + 1)
        => evalLog'[Len(evalLog')].Node \in Nodes(result.Response) \cup {Null}]_vars

----------------------------------------------------------------------------
(* Captured values in an input                                             *)

\* The subcommands the writer put into the input.
Written == {i \in 1..Len(call.pieces) : call.pieces[i] = Lit(WrittenCommand)}

\* C37: text that enters an input only through variable expansion is data:
\* resolving the input runs no command line but those of the subcommands
\* written in the input itself, whatever the value of a variable reads like.
C37_ExpandedTextIsNotExecuted ==
    (call.fn = "GetResolvedTestInput" /\ ret # <<>> /\ ~ret[1].panic)
        => /\ Len(ret[1].ran) <= Cardinality(Written)
           /\ \A n \in 1..Len(ret[1].ran) : ret[1].ran[n] = <<<<"hostname">>>>

====
